---- MODULE Spec2Model ----
(***************************************************************************)
(* Model of the evaluation pipeline of llm_eval_platform:                  *)
(*   - scoring/metrics.py   : per-item scores and their aggregation        *)
(*   - scoring/gates.py     : evaluate_gates                               *)
(*   - analysis.py          : drift alerts and release status              *)
(*   - storage/repository.py: the run store, one transaction per call      *)
(*   - runner/experiment.py : ExperimentRunner.run, one action per         *)
(*                            repository or backend call                   *)
(*                                                                         *)
(* Floats are fixed-point integers: the float 1.0 is the integer Unit.     *)
(* Python's None is the empty sequence, a present value v is <<v>>.        *)
(* Strings the code inspects (outputs, expected answers, keywords) are     *)
(* sequences of one-character strings.                                     *)
(***************************************************************************)
EXTENDS Integers, Sequences, FiniteSets, TLC

VARIABLES
    fn_in,          \* the arguments of the pure function under check, or None
    fn_out,         \* its result, or None before the call
    runs,           \* runs table: run_id -> row
    item_results,   \* item_results table: rows in insertion order
    tag_metrics,    \* run_tag_metrics table: set of rows
    drift_alerts,   \* run_drift_alerts table: rows in insertion order
    clock,          \* the wall clock read by datetime.now
    cfg,            \* the EvalRunConfig each call of ExperimentRunner.run was given
    pc,             \* where each call of run stands
    loc,            \* the local variables of each call of run
    backend_calls,  \* how many generate requests each call has sent to the backend
    outcome         \* what each call returned or raised to its caller

repo == <<runs, item_results, tag_metrics, drift_alerts>>
runner == <<runs, item_results, tag_metrics, drift_alerts, clock, cfg, pc, loc,
            backend_calls, outcome>>
vars == <<fn_in, fn_out, runs, item_results, tag_metrics, drift_alerts, clock, cfg, pc, loc,
          backend_calls, outcome>>

\* The float 1.0 (metrics.py returns 1.0 / 0.0 for a boolean score).
Unit == 360

None == <<>>
Some(v) == <<v>>
IsNone(x) == x = <<>>
Val(x) == x[1]

RECURSIVE SumSeq(_)
SumSeq(s) == IF s = <<>> THEN 0 ELSE Head(s) + SumSeq(Tail(s))

\* statistics.mean over a non-empty sequence of fixed-point values.
Mean(s) == SumSeq(s) \div Len(s)

RECURSIVE MapSeq(_, _)
MapSeq(Op(_), s) == IF s = <<>> THEN <<>> ELSE <<Op(Head(s))>> \o MapSeq(Op, Tail(s))

RECURSIVE FilterSeq(_, _)
FilterSeq(Test(_), s) ==
    IF s = <<>> THEN <<>>
    ELSE (IF Test(Head(s)) THEN <<Head(s)>> ELSE <<>>) \o FilterSeq(Test, Tail(s))

-----------------------------------------------------------------------------
(* Strings: str.lower, str.strip, the `in` substring test.                 *)

LowerChar(c) == IF c = "A" THEN "a" ELSE IF c = "K" THEN "k" ELSE c

Lower(s) == [i \in 1..Len(s) |-> LowerChar(s[i])]

RECURSIVE LStrip(_)
LStrip(s) == IF s # <<>> /\ Head(s) = " " THEN LStrip(Tail(s)) ELSE s

RECURSIVE RStrip(_)
RStrip(s) ==
    IF s # <<>> /\ s[Len(s)] = " " THEN RStrip(SubSeq(s, 1, Len(s) - 1)) ELSE s

Strip(s) == RStrip(LStrip(s))

\* `sub in s` for Python strings: the empty string is in every string.
Contains(sub, s) ==
    \E i \in 0..(Len(s) - Len(sub)) : SubSeq(s, i + 1, i + Len(sub)) = sub

-----------------------------------------------------------------------------
(* JSON documents and schemas.  json.loads recognises the documents of     *)
(* JsonDocs; every other text is a JSONDecodeError.  A schema is a record  *)
(* [type |-> t]; jsonschema.validate first checks the schema itself        *)
(* (SchemaError when the type keyword is not a JSON type), then the        *)
(* instance (ValidationError when the instance has another type).          *)

JsonTypes == {"object", "array", "number"}

JsonLoads(text) ==
    IF text = <<"{", "}">> THEN Some("object")
    ELSE IF text = <<"[", "]">> THEN Some("array")
    ELSE IF text = <<"1">> THEN Some("number")
    ELSE None

\* "ok", "decode_error", "validation_error", or "schema_error" (the one
\* outcome that neither caller catches).
ValidateOutcome(schema, text) ==
    IF IsNone(JsonLoads(text)) THEN "decode_error"
    ELSE IF schema.type \notin JsonTypes THEN "schema_error"
    ELSE IF Val(JsonLoads(text)) # schema.type THEN "validation_error"
    ELSE "ok"

-----------------------------------------------------------------------------
(* scoring/metrics.py *)

exact_match_score(expected, output) ==
    IF IsNone(expected) THEN 0
    ELSE IF Lower(Strip(Val(expected))) = Lower(Strip(output)) THEN Unit ELSE 0

KeywordFound(keyword, output) == Contains(Lower(keyword), Lower(output))

keyword_coverage_score_case_sensitive(keywords, output) ==
    IF keywords = <<>> THEN Unit
    ELSE LET found(k) == Contains(k, output)
         IN (Len(FilterSeq(found, keywords)) * Unit) \div Len(keywords)

keyword_coverage_score(keywords, output) ==
    IF keywords = <<>> THEN Unit
    ELSE LET found(k) == KeywordFound(k, output)
         IN (Len(FilterSeq(found, keywords)) * Unit) \div Len(keywords)

schema_validity_score(schema, output) ==
    IF IsNone(schema) THEN Unit
    ELSE IF ValidateOutcome(Val(schema), output) = "ok" THEN Unit ELSE 0

\* score_item raises exactly when validate raises SchemaError.
ScoreItemRaises(item, output_text) ==
    /\ ~IsNone(item.output_schema)
    /\ ValidateOutcome(Val(item.output_schema), output_text) = "schema_error"

score_item(item, output_text, llm_judge_score) ==
    [exact_match      |-> exact_match_score(item.expected_answer, output_text),
     keyword_coverage |-> keyword_coverage_score(item.keywords, output_text),
     schema_valid     |-> schema_validity_score(item.output_schema, output_text),
     llm_judge_score  |-> llm_judge_score]

aggregate_scores_swapped(scores) ==
    LET em(s) == s.exact_match
        sv(s) == s.schema_valid
        hasJudge(s) == ~IsNone(s.llm_judge_score)
        jv(s) == Val(s.llm_judge_score)
        judge_values == MapSeq(jv, FilterSeq(hasJudge, scores))
    IN [exact_match      |-> Mean(MapSeq(em, scores)),
        keyword_coverage |-> Mean(MapSeq(em, scores)),
        schema_valid     |-> Mean(MapSeq(sv, scores)),
        llm_judge_score  |-> IF judge_values # <<>> THEN Some(Mean(judge_values)) ELSE None,
        sample_count     |-> Len(scores)]

\* if not scores: raise ValueError
aggregate_scores_raises(scores) == scores = <<>>

\* aggregate_scores for a non-empty list (the empty list raises ValueError).
aggregate_scores(scores) ==
    LET em(s) == s.exact_match
        kc(s) == s.keyword_coverage
        sv(s) == s.schema_valid
        hasJudge(s) == ~IsNone(s.llm_judge_score)
        jv(s) == Val(s.llm_judge_score)
        judge_values == MapSeq(jv, FilterSeq(hasJudge, scores))
    IN [exact_match      |-> Mean(MapSeq(em, scores)),
        keyword_coverage |-> Mean(MapSeq(kc, scores)),
        schema_valid     |-> Mean(MapSeq(sv, scores)),
        llm_judge_score  |-> IF judge_values # <<>> THEN Some(Mean(judge_values)) ELSE None,
        sample_count     |-> Len(scores)]

-----------------------------------------------------------------------------
(* scoring/gates.py.  A dict is a sequence of <<key, value>> pairs with    *)
(* distinct keys, in insertion order.  A reason is the message's kind and  *)
(* the values it formats.  The checks dict is a function from the key      *)
(* <<"min_metric", name>> or <<"max_drop", name>> to the check record.     *)

MetricFields == {"exact_match", "keyword_coverage", "schema_valid"}

\* _metric_value: getattr(metrics, name, None), kept when it is an int or a
\* float.  sample_count is an int, llm_judge_score may be None, any other
\* name is no attribute of AggregateMetrics.
metric_value(metrics, metric_name) ==
    IF metric_name \in MetricFields THEN Some(metrics[metric_name])
    ELSE IF metric_name = "llm_judge_score" THEN metrics.llm_judge_score
    ELSE IF metric_name = "sample_count" THEN Some(metrics.sample_count * Unit)
    ELSE None

MissingValue == 0 - Unit
MissingDrop == 999 * Unit

DictPut(d, k, v) == [x \in (DOMAIN d) \cup {k} |-> IF x = k THEN v ELSE d[x]]

NoChecks == [x \in {} |-> TRUE]

\* One iteration of the loop over gate_config.min_metric.items().
MinMetricStepNoMissingReason(acc, candidate, entry) ==
    LET metric_name == entry[1]
        threshold   == entry[2]
        value       == metric_value(candidate, metric_name)
        key         == <<"min_metric", metric_name>>
    IN IF IsNone(value)
       THEN [reasons |-> acc.reasons,
             checks  |-> DictPut(acc.checks, key,
                            [passed |-> FALSE, value |-> MissingValue, threshold |-> threshold])]
       ELSE LET passed == Val(value) >= threshold
            IN [reasons |-> IF passed THEN acc.reasons
                            ELSE Append(acc.reasons,
                                   [kind |-> "below_minimum", metric |-> metric_name]),
                checks  |-> DictPut(acc.checks, key,
                              [passed |-> passed, value |-> Val(value), threshold |-> threshold])]

MinMetricStepStrict(acc, candidate, entry) ==
    LET metric_name == entry[1]
        threshold   == entry[2]
        value       == metric_value(candidate, metric_name)
        key         == <<"min_metric", metric_name>>
    IN IF IsNone(value)
       THEN [reasons |-> Append(acc.reasons,
                           [kind |-> "missing_in_candidate", metric |-> metric_name]),
             checks  |-> DictPut(acc.checks, key,
                            [passed |-> FALSE, value |-> MissingValue, threshold |-> threshold])]
       ELSE LET passed == Val(value) > threshold
            IN [reasons |-> IF passed THEN acc.reasons
                            ELSE Append(acc.reasons,
                                   [kind |-> "below_minimum", metric |-> metric_name]),
                checks  |-> DictPut(acc.checks, key,
                              [passed |-> passed, value |-> Val(value), threshold |-> threshold])]

MinMetricStep(acc, candidate, entry) ==
    LET metric_name == entry[1]
        threshold   == entry[2]
        value       == metric_value(candidate, metric_name)
        key         == <<"min_metric", metric_name>>
    IN IF IsNone(value)
       THEN [reasons |-> Append(acc.reasons,
                           [kind |-> "missing_in_candidate", metric |-> metric_name]),
             checks  |-> DictPut(acc.checks, key,
                            [passed |-> FALSE, value |-> MissingValue, threshold |-> threshold])]
       ELSE LET passed == Val(value) >= threshold
            IN [reasons |-> IF passed THEN acc.reasons
                            ELSE Append(acc.reasons,
                                   [kind |-> "below_minimum", metric |-> metric_name]),
                checks  |-> DictPut(acc.checks, key,
                              [passed |-> passed, value |-> Val(value), threshold |-> threshold])]

\* One iteration of the loop over gate_config.max_drop_from_baseline.items().
MaxDropStepStrict(acc, candidate, baseline, entry) ==
    LET metric_name == entry[1]
        max_drop    == entry[2]
        cand_value  == metric_value(candidate, metric_name)
        base_value  == IF IsNone(baseline) THEN None
                       ELSE metric_value(Val(baseline), metric_name)
        key         == <<"max_drop", metric_name>>
    IN IF IsNone(cand_value) \/ IsNone(base_value)
       THEN [reasons |-> Append(acc.reasons,
                           [kind |-> "missing_for_baseline", metric |-> metric_name]),
             checks  |-> DictPut(acc.checks, key,
                            [passed |-> FALSE, drop |-> MissingDrop, max_drop |-> max_drop])]
       ELSE LET drop   == Val(base_value) - Val(cand_value)
                passed == drop < max_drop
            IN [reasons |-> IF passed THEN acc.reasons
                            ELSE Append(acc.reasons,
                                   [kind |-> "dropped", metric |-> metric_name]),
                checks  |-> DictPut(acc.checks, key,
                              [passed |-> passed, drop |-> drop, max_drop |-> max_drop])]

MaxDropStep(acc, candidate, baseline, entry) ==
    LET metric_name == entry[1]
        max_drop    == entry[2]
        cand_value  == metric_value(candidate, metric_name)
        base_value  == IF IsNone(baseline) THEN None
                       ELSE metric_value(Val(baseline), metric_name)
        key         == <<"max_drop", metric_name>>
    IN IF IsNone(cand_value) \/ IsNone(base_value)
       THEN [reasons |-> Append(acc.reasons,
                           [kind |-> "missing_for_baseline", metric |-> metric_name]),
             checks  |-> DictPut(acc.checks, key,
                            [passed |-> FALSE, drop |-> MissingDrop, max_drop |-> max_drop])]
       ELSE LET drop   == Val(base_value) - Val(cand_value)
                passed == drop <= max_drop
            IN [reasons |-> IF passed THEN acc.reasons
                            ELSE Append(acc.reasons,
                                   [kind |-> "dropped", metric |-> metric_name]),
                checks  |-> DictPut(acc.checks, key,
                              [passed |-> passed, drop |-> drop, max_drop |-> max_drop])]

RECURSIVE MinMetricLoop(_, _, _)
MinMetricLoop(acc, candidate, entries) ==
    IF entries = <<>> THEN acc
    ELSE MinMetricLoop(MinMetricStep(acc, candidate, Head(entries)), candidate, Tail(entries))

RECURSIVE MaxDropLoop(_, _, _, _)
MaxDropLoop(acc, candidate, baseline, entries) ==
    IF entries = <<>> THEN acc
    ELSE MaxDropLoop(MaxDropStep(acc, candidate, baseline, Head(entries)),
                     candidate, baseline, Tail(entries))

evaluate_gates(candidate, gate_config, baseline) ==
    LET afterMin == MinMetricLoop([reasons |-> <<>>, checks |-> NoChecks],
                                  candidate, gate_config.min_metric)
        afterMax == MaxDropLoop(afterMin, candidate, baseline,
                                gate_config.max_drop_from_baseline)
    IN [status  |-> IF afterMax.reasons = <<>> THEN "pass" ELSE "fail",
        reasons |-> afterMax.reasons,
        checks  |-> afterMax.checks]

-----------------------------------------------------------------------------
(* analysis.py *)

compute_release_status_alerts_first(gate_decision, alerts) ==
    IF alerts # <<>> THEN "DRIFT_WARNING"
    ELSE IF gate_decision.status = "fail" THEN "BLOCKED"
    ELSE "APPROVED"

compute_release_status(gate_decision, alerts) ==
    IF gate_decision.status = "fail" THEN "BLOCKED"
    ELSE IF alerts # <<>> THEN "DRIFT_WARNING"
    ELSE "APPROVED"

\* build_tag_metrics: one record per (tag key, tag value) pair that some
\* result carries, averaging the results that carry it.
build_tag_metrics(run_id, results) ==
    LET pairs == UNION {results[i].tags : i \in 1..Len(results)}
        rowsOf(kv) == LET carries(r) == kv \in r.tags IN FilterSeq(carries, results)
        scoresOf(r) == r.scores
    IN {LET agg == aggregate_scores(MapSeq(scoresOf, rowsOf(kv)))
        IN [run_id |-> run_id, tag_key |-> kv[1], tag_value |-> kv[2],
            exact_match |-> agg.exact_match, keyword_coverage |-> agg.keyword_coverage,
            schema_valid |-> agg.schema_valid, llm_judge_score |-> agg.llm_judge_score,
            sample_count |-> agg.sample_count] : kv \in pairs}

TrendMetrics == <<"exact_match", "keyword_coverage", "schema_valid">>

\* summarize_trends: per metric, the values of the runs that have aggregate
\* metrics, in the order given.
Trends(run_list) ==
    LET hasAgg(r) == ~IsNone(r.aggregate_metrics)
        withAgg == FilterSeq(hasAgg, run_list)
    IN [m \in {TrendMetrics[i] : i \in 1..Len(TrendMetrics)} |->
          [i \in 1..Len(withAgg) |-> Val(withAgg[i].aggregate_metrics)[m]]]

SumSquares(values) == SumSeq([i \in 1..Len(values) |-> values[i] * values[i]])

\* pstdev(values) > 0.15, with pstdev^2 = (n * sum(x^2) - sum(x)^2) / n^2
\* and 0.15^2 = 9/400; a series of fewer than two values has volatility 0.0.
HighVolatility(values) ==
    /\ Len(values) >= 2
    /\ 400 * (Len(values) * SumSquares(values) - SumSeq(values) * SumSeq(values))
          > 9 * Len(values) * Len(values) * Unit * Unit

\* float(getattr(metrics, metric)) raises AttributeError for a name that is
\* no field and TypeError for a field that holds None.
FloatAttrRaises(metrics, metric) ==
    \/ metric \notin MetricFields \cup {"llm_judge_score", "sample_count"}
    \/ metric = "llm_judge_score" /\ IsNone(metrics.llm_judge_score)

build_drift_alerts_raises(baseline, candidate, max_drop_from_baseline) ==
    /\ ~IsNone(baseline)
    /\ \E i \in DOMAIN max_drop_from_baseline :
          \/ FloatAttrRaises(Val(baseline), max_drop_from_baseline[i][1])
          \/ FloatAttrRaises(candidate, max_drop_from_baseline[i][1])

DropAlertInclusive(baseline, candidate, entry) ==
    LET metric    == entry[1]
        threshold == entry[2]
        drop      == Val(metric_value(Val(baseline), metric))
                       - Val(metric_value(candidate, metric))
    IN IF drop >= threshold
       THEN << [scope |-> "global", metric |-> Some(metric), severity |-> "critical",
                delta |-> Some(0 - drop), threshold |-> Some(0 - threshold)] >>
       ELSE IF 10 * drop > 7 * threshold
       THEN << [scope |-> "global", metric |-> Some(metric), severity |-> "warning",
                delta |-> Some(0 - drop), threshold |-> Some(0 - threshold)] >>
       ELSE <<>>

DropAlert(baseline, candidate, entry) ==
    LET metric    == entry[1]
        threshold == entry[2]
        drop      == Val(metric_value(Val(baseline), metric))
                       - Val(metric_value(candidate, metric))
    IN IF drop > threshold
       THEN << [scope |-> "global", metric |-> Some(metric), severity |-> "critical",
                delta |-> Some(0 - drop), threshold |-> Some(0 - threshold)] >>
       ELSE IF 10 * drop > 7 * threshold
       THEN << [scope |-> "global", metric |-> Some(metric), severity |-> "warning",
                delta |-> Some(0 - drop), threshold |-> Some(0 - threshold)] >>
       ELSE <<>>

RECURSIVE DropAlerts(_, _, _)
DropAlerts(baseline, candidate, entries) ==
    IF entries = <<>> \/ IsNone(baseline) THEN <<>>
    ELSE DropAlert(baseline, candidate, Head(entries))
           \o DropAlerts(baseline, candidate, Tail(entries))

RECURSIVE VolatilityAlerts(_, _)
VolatilityAlerts(trends, metrics) ==
    IF metrics = <<>> THEN <<>>
    ELSE (IF HighVolatility(trends[Head(metrics)])
          THEN << [scope |-> "global", metric |-> Some(Head(metrics)), severity |-> "warning",
                   delta |-> None, threshold |-> None] >>
          ELSE <<>>)
         \o VolatilityAlerts(trends, Tail(metrics))

\* build_drift_alerts, given the trend series its volatility argument was
\* computed from.
build_drift_alerts(baseline, candidate, trends, max_drop_from_baseline) ==
    DropAlerts(baseline, candidate, max_drop_from_baseline)
      \o VolatilityAlerts(trends, TrendMetrics)

-----------------------------------------------------------------------------
(* config.py *)

build_run_key_without_seed(v) ==
    <<v.dataset_name, v.dataset_version, v.prompt_version, v.model_name,
      v.retrieval_enabled, v.llm_judge_enabled, 0>>

\* stable_hash(...)[:16] of the seven fields, the digest taken as
\* collision-free: the key is the serialized payload itself.
build_run_key(v) ==
    <<v.dataset_name, v.dataset_version, v.prompt_version, v.model_name,
      v.retrieval_enabled, v.llm_judge_enabled, v.seed>>

-----------------------------------------------------------------------------
(* The datasets table and the dataset files (read, never written, by run). *)

Item1 == [item_id |-> "i1", expected_answer |-> Some(<<"a">>),
          keywords |-> << <<"a">>, <<"K">> >>,
          tags |-> {<<"topic", "x">>}, output_schema |-> None]
Item2 == [item_id |-> "i2", expected_answer |-> None, keywords |-> <<>>,
          tags |-> {<<"topic", "x">>, <<"kind", "json">>},
          output_schema |-> Some([type |-> "object"])]
ItemBadSchema == [item_id |-> "b1", expected_answer |-> Some(<<"a">>), keywords |-> <<>>,
                  tags |-> {<<"topic", "x">>}, output_schema |-> Some([type |-> "objekt"])]

RegisteredDatasets == {"qa", "solo", "broken"}

\* load_jsonl_dataset: the items of a registered dataset, never empty.
load_jsonl_dataset(dataset_name) ==
    IF dataset_name = "qa" THEN <<Item1, Item2>>
    ELSE IF dataset_name = "solo" THEN <<Item1>>
    ELSE <<ItemBadSchema>>

\* What the generation backend may answer, and what the judge may answer.
GenOutputs == {<<"A">>, <<"{", "}">>, <<"1">>}
JudgeOutputs == {<<"1">>}

\* llm_judge_from_text: a numeric text is clamped to [0, 1]; otherwise the
\* keyword heuristics apply.
llm_judge_from_text(judge_output) ==
    LET cleaned == Strip(judge_output)
        lower == Lower(cleaned)
    IN IF cleaned = <<"1">> THEN Unit
       ELSE IF cleaned = <<"0">> THEN 0
       ELSE IF Contains(<<"p", "a", "s", "s">>, lower) \/ Contains(<<"g", "o", "o", "d">>, lower)
       THEN Unit
       ELSE IF Contains(<<"f", "a", "i", "l">>, lower) \/ Contains(<<"b", "a", "d">>, lower)
       THEN 0
       ELSE Unit \div 2

schema_error_message_parse_only(schema, output_text) ==
    IF IsNone(JsonLoads(output_text)) THEN Some("decode_error") ELSE None

\* _schema_error_message: None, or the message of the JSONDecodeError or
\* ValidationError.
schema_error_message(schema, output_text) ==
    IF ValidateOutcome(schema, output_text) = "ok" THEN None
    ELSE Some(ValidateOutcome(schema, output_text))

-----------------------------------------------------------------------------
(* The calls of ExperimentRunner.run and their configurations.             *)

NumCalls == 2
Procs == 1..NumCalls

\* A completed run of an earlier session, usable as a baseline.
HistVariant ==
    [dataset_name |-> "qa", dataset_version |-> "v1", prompt_version |-> "p1",
     model_name |-> "m0", retrieval_enabled |-> FALSE, llm_judge_enabled |-> FALSE,
     llm_judge_model |-> None, seed |-> 42]
HistRunId == <<build_run_key(HistVariant), 1>>
MissingRunId == <<build_run_key(HistVariant), 7>>
HistMetrics ==
    [exact_match |-> Unit \div 2, keyword_coverage |-> Unit \div 2, schema_valid |-> Unit,
     llm_judge_score |-> None, sample_count |-> 2]

Variant(dataset, model, judge) ==
    [dataset_name |-> dataset, dataset_version |-> "v1", prompt_version |-> "p1",
     model_name |-> model, retrieval_enabled |-> FALSE, llm_judge_enabled |-> judge,
     llm_judge_model |-> IF judge THEN Some("judge") ELSE None, seed |-> 42]

NoGates == [baseline_run_id |-> None, min_metric |-> <<>>, max_drop_from_baseline |-> <<>>]

\* The configurations of calls that run concurrently.
RunConfigs ==
    { [variant |-> Variant("solo", "m1", TRUE),
       gates |-> [baseline_run_id |-> Some(HistRunId), min_metric |-> <<>>,
                  max_drop_from_baseline |-> << <<"exact_match", Unit \div 2>> >>]],
      [variant |-> Variant("solo", "m2", FALSE),
       gates |-> [baseline_run_id |-> None,
                  min_metric |-> << <<"exact_match", Unit \div 2>> >>,
                  max_drop_from_baseline |-> <<>>]],
      [variant |-> Variant("ghost", "m1", FALSE), gates |-> NoGates] }

\* The configurations of a call that runs alone.
LoopConfigs ==
    { [variant |-> Variant("qa", "m1", TRUE),
       gates |-> [baseline_run_id |-> Some(HistRunId), min_metric |-> <<>>,
                  max_drop_from_baseline |-> << <<"exact_match", 0>> >>]],
      [variant |-> Variant("qa", "m2", FALSE),
       gates |-> [baseline_run_id |-> None,
                  min_metric |-> << <<"exact_match", Unit \div 2>> >>,
                  max_drop_from_baseline |-> <<>>]],
      [variant |-> Variant("solo", "m3", FALSE),
       gates |-> [baseline_run_id |-> Some(HistRunId), min_metric |-> <<>>,
                  max_drop_from_baseline |-> << <<"llm_judge_score", Unit \div 2>> >>]],
      [variant |-> Variant("ghost", "m1", FALSE), gates |-> NoGates],
      [variant |-> Variant("broken", "m1", FALSE),
       gates |-> [baseline_run_id |-> Some(MissingRunId), min_metric |-> <<>>,
                  max_drop_from_baseline |-> <<>>]] }

InitLoc ==
    [items |-> <<>>, run_version |-> 0, started_at |-> 0, idx |-> 1,
     output_text |-> <<>>, results |-> <<>>, aggregate |-> None, baseline |-> None,
     gate |-> None, trends |-> None, alerts |-> <<>>, exc |-> ""]

HistRun ==
    [run_id |-> HistRunId, run_key |-> HistRunId[1], run_version |-> 1,
     dataset_name |-> "qa", dataset_version |-> "v1", status |-> "completed",
     started_at |-> 0, release_status |-> "APPROVED",
     aggregate_metrics |-> Some(HistMetrics),
     gate_decision |-> Some([status |-> "pass", reasons |-> <<>>, checks |-> NoChecks])]

RunnerIdle ==
    /\ runs = [id \in {HistRunId} |-> HistRun]
    /\ item_results = <<>>
    /\ tag_metrics = {}
    /\ drift_alerts = <<>>
    /\ clock = 0
    /\ loc = [p \in Procs |-> InitLoc]
    /\ backend_calls = [p \in Procs |-> 0]
    /\ outcome = [p \in Procs |-> [kind |-> "none", exc |-> ""]]

Init ==
    /\ fn_in = None
    /\ fn_out = None
    /\ RunnerIdle
    /\ cfg \in [Procs -> RunConfigs]
    /\ pc = [p \in Procs |-> "get_dataset"]

\* One call of run, alone: the other calls are never made.
InitLoop ==
    /\ fn_in = None
    /\ fn_out = None
    /\ RunnerIdle
    /\ cfg \in {c \in [Procs -> LoopConfigs] : \A p \in Procs : c[p] = c[1]}
    /\ pc = [p \in Procs |-> IF p = 1 THEN "get_dataset" ELSE "idle"]

run_key(p) == build_run_key(cfg[p].variant)
run_id(p) == <<run_key(p), loc[p].run_version>>

-----------------------------------------------------------------------------
(* storage/repository.py: each operator is one transaction.                *)

get_dataset_any(dataset_name, version) == Some(dataset_name)

\* get_dataset: the row, or None.
get_dataset(dataset_name, version) ==
    IF dataset_name \in RegisteredDatasets THEN Some(dataset_name) ELSE None

\* next_run_version: (max(run_version) where run_key = key, or 0) + 1.
MaxOf(S) == CHOOSE x \in S : \A y \in S : y <= x
next_run_version(key) ==
    LET versions == {runs[id].run_version : id \in {i \in DOMAIN runs : runs[i].run_key = key}}
    IN (IF versions = {} THEN 0 ELSE MaxOf(versions)) + 1

\* create_run: INSERT; run_id is the primary key of the runs table.
create_run_conflicts(run) == run.run_id \in DOMAIN runs
create_run(run) == [id \in (DOMAIN runs) \cup {run.run_id} |->
                      IF id = run.run_id THEN run ELSE runs[id]]

\* update_run_status: UPDATE ... WHERE run_id = id; a column is written only
\* when its argument is not None.
update_run_status(id, status, aggregate_metrics, gate_decision, release_status) ==
    [i \in DOMAIN runs |->
        IF i # id THEN runs[i]
        ELSE [runs[i] EXCEPT
                !.status = status,
                !.aggregate_metrics = IF IsNone(aggregate_metrics) THEN @ ELSE aggregate_metrics,
                !.gate_decision = IF IsNone(gate_decision) THEN @ ELSE gate_decision,
                !.release_status = IF IsNone(release_status) THEN @ ELSE Val(release_status)]]

insert_item_results(results) == item_results \o results

get_run(id) == IF id \in DOMAIN runs THEN Some(runs[id]) ELSE None

\* list_runs_by_dataset: the dataset's runs ordered by started_at ascending.
RECURSIVE SortByStart(_)
SortByStart(S) ==
    IF S = {} THEN <<>>
    ELSE LET first == CHOOSE r \in S : \A o \in S : r.started_at <= o.started_at
         IN <<first>> \o SortByStart(S \ {first})

list_runs_by_dataset(dataset_name, dataset_version) ==
    SortByStart({runs[id] : id \in {i \in DOMAIN runs :
                    /\ runs[i].dataset_name = dataset_name
                    /\ runs[i].dataset_version = dataset_version}})

replace_tag_metrics(id, metrics) == {m \in tag_metrics : m.run_id # id} \cup metrics

replace_drift_alerts_not_written(id, alerts) == drift_alerts

replace_drift_alerts(id, alerts) ==
    LET other(a) == a.run_id # id IN FilterSeq(other, drift_alerts) \o alerts

-----------------------------------------------------------------------------
(* runner/experiment.py: ExperimentRunner.run.  One action per repository  *)
(* or backend call, together with the local computation that follows it.   *)
(* A repository call inside the try block may raise (DbError); a backend   *)
(* call may raise.                                                         *)

Goto(p, label) == pc' = [pc EXCEPT ![p] = label]

\* What is left of a frame once the loop and the pipeline are behind it: the
\* run_version and started_at the call was assigned.
Assigned(p) == [InitLoc EXCEPT !.run_version = loc[p].run_version,
                               !.started_at = loc[p].started_at]

\* The call ends: the caller has the outcome.
Raised(p, e) ==
    /\ outcome' = [outcome EXCEPT ![p] = [kind |-> "raised", exc |-> e]]
    /\ loc' = [loc EXCEPT ![p] = Assigned(p)]
    /\ Goto(p, "done")

Returned(p) ==
    /\ outcome' = [outcome EXCEPT ![p] = [kind |-> "returned", exc |-> ""]]
    /\ loc' = [loc EXCEPT ![p] = Assigned(p)]
    /\ Goto(p, "done")

\* Entering `except Exception:` with the exception e pending; the handler
\* reads run_id only.
ToHandler(p, e) ==
    /\ Goto(p, "handler")
    /\ loc' = [loc EXCEPT ![p] = [Assigned(p) EXCEPT !.exc = e]]
    /\ UNCHANGED outcome

\* lines 48-56
GetDataset(p) ==
    /\ pc[p] = "get_dataset"
    /\ IF IsNone(get_dataset(cfg[p].variant.dataset_name, cfg[p].variant.dataset_version))
       THEN Raised(p, "ValueError:dataset_not_registered")
       ELSE /\ loc' = [loc EXCEPT ![p].items = load_jsonl_dataset(cfg[p].variant.dataset_name)]
            /\ Goto(p, "next_run_version")
            /\ UNCHANGED outcome
    /\ UNCHANGED <<fn_in, fn_out, repo, clock, cfg, backend_calls>>

\* lines 57-100: the keys, next_run_version, and the RunRecord with its
\* started_at.
NextRunVersion(p) ==
    /\ pc[p] = "next_run_version"
    /\ loc' = [loc EXCEPT ![p].run_version = next_run_version(run_key(p)),
                          ![p].started_at = clock + 1]
    /\ clock' = clock + 1
    /\ Goto(p, "create_run")
    /\ UNCHANGED <<fn_in, fn_out, repo, cfg, backend_calls, outcome>>

NewRunRecord(p) ==
    [run_id |-> run_id(p), run_key |-> run_key(p), run_version |-> loc[p].run_version,
     dataset_name |-> cfg[p].variant.dataset_name,
     dataset_version |-> cfg[p].variant.dataset_version,
     status |-> "running", started_at |-> loc[p].started_at, release_status |-> "BLOCKED",
     aggregate_metrics |-> None, gate_decision |-> None]

\* line 101: outside the try block, so a failure propagates as it is.
CreateRun(p) ==
    /\ pc[p] = "create_run"
    /\ IF create_run_conflicts(NewRunRecord(p))
       THEN /\ Raised(p, "IntegrityError")
            /\ UNCHANGED runs
       ELSE /\ runs' = create_run(NewRunRecord(p))
            /\ Goto(p, "generate")
            /\ UNCHANGED <<loc, outcome>>
    /\ UNCHANGED <<fn_in, fn_out, item_results, tag_metrics, drift_alerts, clock, cfg,
                   backend_calls>>

\* lines 145-165: the ItemResult of one item.
MakeItemResult(rid, item, output_text, error, judge_score, latency_ms) ==
    LET missed(k) == ~KeywordFound(k, output_text)
    IN [run_id |-> rid, item_id |-> item.item_id, output_text |-> output_text,
        latency_ms |-> latency_ms,
        expected_answer |-> item.expected_answer, keywords |-> item.keywords,
        error |-> error,
        schema_error |-> IF IsNone(item.output_schema) THEN None
                         ELSE schema_error_message(Val(item.output_schema), output_text),
        keyword_misses |-> FilterSeq(missed, item.keywords),
        scores |-> score_item(item, output_text, judge_score),
        tags |-> item.tags]

AppendResultDroppingErrors(results, rid, item, output_text, error, judge_score, latency_ms) ==
    IF IsNone(error)
    THEN Append(results, MakeItemResult(rid, item, output_text, error, judge_score, latency_ms))
    ELSE results

\* lines 148-165: results.append(ItemResult(...))
AppendResult(results, rid, item, output_text, error, judge_score, latency_ms) ==
    Append(results, MakeItemResult(rid, item, output_text, error, judge_score, latency_ms))

\* lines 136-166: from leaving the inner try block to the end of the loop body.
FinishItem(p, output_text, error, judge_score, latency_ms) ==
    LET item == loc[p].items[loc[p].idx]
    IN IF ScoreItemRaises(item, output_text)
       THEN ToHandler(p, "SchemaError")
       ELSE /\ loc' = [loc EXCEPT
                         ![p].results = AppendResult(@, run_id(p), item, output_text,
                                                     error, judge_score, latency_ms),
                         ![p].idx = @ + 1,
                         ![p].output_text = <<>>]
            /\ Goto(p, IF loc[p].idx + 1 > Len(loc[p].items)
                       THEN "insert_item_results" ELSE "generate")
            /\ UNCHANGED outcome

\* The wall-clock time one generation call and one judge call take, in
\* milliseconds, whether the call returns or raises.
GenerateMs == 3
JudgeMs == 5

\* lines 111-122: the generation call of the current item.  t0 is read
\* just before it (line 116); the `finally` clause (lines 139-140) reads the
\* clock again when the try block is left, after the judge call if there
\* is one.
Generate(p) ==
    /\ pc[p] = "generate"
    /\ backend_calls' = [backend_calls EXCEPT ![p] = @ + 1]
    /\ \/ FinishItem(p, <<>>, Some("generation failed"), None, GenerateMs)
       \/ \E out \in GenOutputs :
             IF cfg[p].variant.llm_judge_enabled /\ ~IsNone(cfg[p].variant.llm_judge_model)
             THEN /\ loc' = [loc EXCEPT ![p].output_text = out]
                  /\ Goto(p, "judge")
                  /\ UNCHANGED outcome
             ELSE FinishItem(p, out, None, None, GenerateMs)
    /\ UNCHANGED <<fn_in, fn_out, repo, clock, cfg>>

\* lines 123-140: the judge call, made after a successful generation.
Judge(p) ==
    /\ pc[p] = "judge"
    /\ backend_calls' = [backend_calls EXCEPT ![p] = @ + 1]
    /\ \/ FinishItem(p, loc[p].output_text, Some("judge failed"), None, GenerateMs + JudgeMs)
       \/ \E jout \in JudgeOutputs :
             FinishItem(p, loc[p].output_text, None, Some(llm_judge_from_text(jout)),
                        GenerateMs + JudgeMs)
    /\ UNCHANGED <<fn_in, fn_out, repo, clock, cfg>>

ScoresOf(results) == [i \in 1..Len(results) |-> results[i].scores]

\* lines 167-168
InsertItemResults(p) ==
    /\ pc[p] = "insert_item_results"
    /\ \/ /\ item_results' = insert_item_results(loc[p].results)
          /\ loc' = [loc EXCEPT ![p].aggregate = Some(aggregate_scores(ScoresOf(loc[p].results)))]
          /\ Goto(p, "load_baseline")
          /\ UNCHANGED outcome
       \/ /\ ToHandler(p, "DbError")
          /\ UNCHANGED item_results
    /\ UNCHANGED <<fn_in, fn_out, runs, tag_metrics, drift_alerts, clock, cfg, backend_calls>>

\* lines 169-175 and 238-244: _load_baseline_metrics, then evaluate_gates.
LoadBaseline(p) ==
    LET bid == cfg[p].gates.baseline_run_id
        found == get_run(Val(bid))
        gateWith(b) == Some(evaluate_gates(Val(loc[p].aggregate), cfg[p].gates, b))
    IN /\ pc[p] = "load_baseline"
       /\ \/ /\ IsNone(bid)
             /\ loc' = [loc EXCEPT ![p].baseline = None, ![p].gate = gateWith(None)]
             /\ Goto(p, "replace_tag_metrics")
             /\ UNCHANGED outcome
          \/ /\ ~IsNone(bid)
             /\ IF IsNone(found) \/ IsNone(Val(found).aggregate_metrics)
                THEN ToHandler(p, "ValueError:baseline")
                ELSE /\ loc' = [loc EXCEPT ![p].baseline = Val(found).aggregate_metrics,
                                           ![p].gate = gateWith(Val(found).aggregate_metrics)]
                     /\ Goto(p, "replace_tag_metrics")
                     /\ UNCHANGED outcome
          \/ /\ ~IsNone(bid)
             /\ ToHandler(p, "DbError")
       /\ UNCHANGED <<fn_in, fn_out, repo, clock, cfg, backend_calls>>

\* lines 175-176
ReplaceTagMetrics(p) ==
    /\ pc[p] = "replace_tag_metrics"
    /\ \/ /\ tag_metrics' = replace_tag_metrics(run_id(p),
                                build_tag_metrics(run_id(p), loc[p].results))
          /\ Goto(p, "list_runs")
          /\ UNCHANGED <<loc, outcome>>
       \/ /\ ToHandler(p, "DbError")
          /\ UNCHANGED tag_metrics
    /\ UNCHANGED <<fn_in, fn_out, runs, item_results, drift_alerts, clock, cfg, backend_calls>>

\* lines 177-186: list_runs_by_dataset, summarize_trends, build_drift_alerts.
ListRuns(p) ==
    LET historical == list_runs_by_dataset(cfg[p].variant.dataset_name,
                                           cfg[p].variant.dataset_version)
        copy == [NewRunRecord(p) EXCEPT !.aggregate_metrics = loc[p].aggregate]
        trends == Trends(Append(historical, copy))
    IN /\ pc[p] = "list_runs"
       /\ \/ IF build_drift_alerts_raises(loc[p].baseline, Val(loc[p].aggregate),
                                          cfg[p].gates.max_drop_from_baseline)
             THEN ToHandler(p, "TypeError:build_drift_alerts")
             ELSE /\ loc' = [loc EXCEPT
                               ![p].trends = Some(trends),
                               ![p].alerts = build_drift_alerts(loc[p].baseline,
                                                 Val(loc[p].aggregate), trends,
                                                 cfg[p].gates.max_drop_from_baseline)]
                  /\ Goto(p, "replace_drift_alerts")
                  /\ UNCHANGED outcome
          \/ ToHandler(p, "DbError")
       /\ UNCHANGED <<fn_in, fn_out, repo, clock, cfg, backend_calls>>

\* lines 187-201: the DriftAlertRecord of one alert.
DriftRecords(p) ==
    [i \in 1..Len(loc[p].alerts) |->
        [run_id |-> run_id(p), dataset_name |-> cfg[p].variant.dataset_name,
         dataset_version |-> cfg[p].variant.dataset_version,
         scope |-> loc[p].alerts[i].scope, metric |-> loc[p].alerts[i].metric,
         severity |-> loc[p].alerts[i].severity, delta |-> loc[p].alerts[i].delta,
         threshold |-> loc[p].alerts[i].threshold]]

\* line 202
ReplaceDriftAlerts(p) ==
    /\ pc[p] = "replace_drift_alerts"
    /\ \/ /\ drift_alerts' = replace_drift_alerts(run_id(p), DriftRecords(p))
          /\ Goto(p, "update_completed")
          /\ UNCHANGED <<loc, outcome>>
       \/ /\ ToHandler(p, "DbError")
          /\ UNCHANGED drift_alerts
    /\ UNCHANGED <<fn_in, fn_out, runs, item_results, tag_metrics, clock, cfg, backend_calls>>

\* lines 203-228
UpdateCompleted(p) ==
    /\ pc[p] = "update_completed"
    /\ \/ /\ runs' = update_run_status(run_id(p), "completed", loc[p].aggregate, loc[p].gate,
                        Some(compute_release_status(Val(loc[p].gate), loc[p].alerts)))
          /\ Goto(p, "get_updated")
          /\ UNCHANGED <<loc, outcome>>
       \/ /\ ToHandler(p, "DbError")
          /\ UNCHANGED runs
    /\ UNCHANGED <<fn_in, fn_out, item_results, tag_metrics, drift_alerts, clock, cfg,
                   backend_calls>>

\* lines 229-232
GetUpdated(p) ==
    /\ pc[p] = "get_updated"
    /\ \/ IF IsNone(get_run(run_id(p)))
          THEN ToHandler(p, "RuntimeError:missing_after_completion")
          ELSE Returned(p)
       \/ ToHandler(p, "DbError")
    /\ UNCHANGED <<fn_in, fn_out, repo, clock, cfg, backend_calls>>

\* lines 233-235: except Exception: update_run_status(failed); raise
HandleFailure(p) ==
    /\ pc[p] = "handler"
    /\ \/ /\ runs' = update_run_status(run_id(p), "failed", None, None, None)
          /\ Raised(p, loc[p].exc)
       \/ /\ Raised(p, "DbError:handler")
          /\ UNCHANGED runs
    /\ UNCHANGED <<fn_in, fn_out, item_results, tag_metrics, drift_alerts, clock, cfg,
                   backend_calls>>

Next ==
    \E p \in Procs :
        \/ GetDataset(p)
        \/ NextRunVersion(p)
        \/ CreateRun(p)
        \/ Generate(p)
        \/ Judge(p)
        \/ InsertItemResults(p)
        \/ LoadBaseline(p)
        \/ ReplaceTagMetrics(p)
        \/ ListRuns(p)
        \/ ReplaceDriftAlerts(p)
        \/ UpdateCompleted(p)
        \/ GetUpdated(p)
        \/ HandleFailure(p)

Spec == Init /\ [][Next]_vars

SpecLoop == InitLoop /\ [][Next]_vars

-----------------------------------------------------------------------------
(* Claims about ExperimentRunner.run and the run store.                    *)

Created(p) == loc[p].run_version > 0 /\ run_id(p) \in DOMAIN runs
Terminal == {"completed", "failed"}

\* C1: run status is terminal: once a run's stored status is completed or
\* failed no later step of run changes it; the only transitions taken are
\* running -> completed and running -> failed.
C1_StatusTerminal ==
    [][\A id \in DOMAIN runs :
          /\ runs[id].status \in Terminal => runs'[id].status = runs[id].status
          /\ runs'[id].status # runs[id].status => runs[id].status = "running"]_vars

\* C2: in every reachable state a RunRecord has aggregate_metrics and
\* gate_decision if and only if its status is completed.
C2_MetricsIffCompleted ==
    \A id \in DOMAIN runs :
        /\ (runs[id].status = "completed") <=> ~IsNone(runs[id].aggregate_metrics)
        /\ (runs[id].status = "completed") <=> ~IsNone(runs[id].gate_decision)

\* C3: no two calls of run that compute the same run_key are assigned the
\* same run_version; versions start at 1 and a later assignment is strictly
\* greater than every earlier one.
C3_VersionsDistinct ==
    \A p, q \in Procs :
        (/\ loc[p].run_version > 0
         /\ loc[q].run_version > 0
         /\ run_key(p) = run_key(q)
         /\ loc[p].started_at < loc[q].started_at)
            => loc[p].run_version < loc[q].run_version

\* The rows of one run in the item_results table, in insertion order.
RowsOf(rid) == LET mine(r) == r.run_id = rid IN FilterSeq(mine, item_results)

ItemIds(rows) == [i \in 1..Len(rows) |-> rows[i].item_id]

DatasetOf(p) == load_jsonl_dataset(cfg[p].variant.dataset_name)

\* C4: when the execution loop finishes, the list handed to
\* insert_item_results holds exactly one ItemResult per dataset item, in the
\* order the items were read, whichever items had a failing generation or
\* judge call; the rows persisted for the run are that list.
C4_OneResultPerItemInOrder ==
    \A p \in Procs :
        /\ pc[p] = "insert_item_results" => ItemIds(loc[p].results) = ItemIds(DatasetOf(p))
        /\ pc[p] \in {"generate", "judge"} =>
              ItemIds(loc[p].results) = SubSeq(ItemIds(DatasetOf(p)), 1, loc[p].idx - 1)
        /\ Created(p) => \/ RowsOf(run_id(p)) = <<>>
                         \/ ItemIds(RowsOf(run_id(p))) = ItemIds(DatasetOf(p))

C4_Witness ==
    \E p \in Procs :
        /\ pc[p] = "insert_item_results"
        /\ Len(loc[p].results) = 2
        /\ ~IsNone(loc[p].results[1].error)
        /\ IsNone(loc[p].results[2].error)

\* Every ItemResult the execution loop has produced so far.
ProducedResults ==
    {item_results[i] : i \in 1..Len(item_results)}
      \cup UNION {{loc[p].results[i] : i \in 1..Len(loc[p].results)} : p \in Procs}

ItemById(id) == CHOOSE it \in {Item1, Item2, ItemBadSchema} : it.item_id = id

\* C5: for every ItemResult, if its error field is set then its output_text is
\* empty and its scores are those of the empty output, whether the generation
\* call or the judge call raised.
C5_ErrorMeansEmptyOutput ==
    \A r \in ProducedResults :
        ~IsNone(r.error) =>
            /\ r.output_text = <<>>
            /\ r.scores = score_item(ItemById(r.item_id), <<>>, None)

\* C6: if a step of run after create_run and outside the per-item backend
\* calls raises, the run's stored status becomes failed, the same exception
\* propagates to the caller, and the item results and tag metrics already
\* persisted stay in place.
C6_FailureMarksFailedAndReraises ==
    [][\A p \in Procs :
          (pc[p] = "handler" /\ pc'[p] = "done") =>
              /\ runs'[run_id(p)].status = "failed"
              /\ outcome'[p] = [kind |-> "raised", exc |-> loc[p].exc]
              /\ item_results' = item_results
              /\ tag_metrics' = tag_metrics]_vars

Unregistered(p) == cfg[p].variant.dataset_name \notin RegisteredDatasets

\* C7: if the configured dataset is not registered, run raises to the caller
\* and leaves the repository unchanged: no RunRecord is created, no
\* run_version is consumed for the run_key and no backend call is made.
C7_UnregisteredDatasetLeavesNoTrace ==
    [][\A p \in Procs :
          Unregistered(p) =>
              /\ pc'[p] # pc[p] =>
                    /\ outcome'[p] = [kind |-> "raised",
                                      exc |-> "ValueError:dataset_not_registered"]
                    /\ pc'[p] = "done"
                    /\ repo' = repo
              /\ backend_calls'[p] = 0
              /\ loc'[p].run_version = 0
              /\ \A id \in DOMAIN runs' : runs'[id].run_key # run_key(p)]_vars

C7_Witness ==
    \E p \in Procs :
        /\ Unregistered(p)
        /\ pc[p] = "done"
        /\ outcome[p] = [kind |-> "raised", exc |-> "ValueError:dataset_not_registered"]
        /\ DOMAIN runs = {HistRunId}
        /\ backend_calls[p] = 0

-----------------------------------------------------------------------------
(* evaluate_gates as a pure function: Init draws its arguments, the one    *)
(* action applies it.                                                      *)

MaxGateEntries == 2

GateMetricNames == {"exact_match", "llm_judge_score", "accuracy"}
GateThresholds == {Unit \div 2, Unit}
GateDrops == {0 - (Unit \div 2), 0, Unit \div 2}
GateScores == {0, Unit \div 2, Unit}

\* Ordered dicts of at most MaxGateEntries entries with distinct keys.
DictsOver(names, values) ==
    {d \in UNION {[1..n -> names \X values] : n \in 0..MaxGateEntries} :
        \A i, j \in DOMAIN d : i # j => d[i][1] # d[j][1]}

GateMetrics ==
    [exact_match : GateScores, keyword_coverage : {Unit}, schema_valid : {Unit},
     llm_judge_score : {None, Some(Unit \div 2)}, sample_count : {2}]

GateConfigs ==
    [baseline_run_id : {None},
     min_metric : DictsOver(GateMetricNames, GateThresholds),
     max_drop_from_baseline : DictsOver(GateMetricNames, GateDrops)]

InitGates ==
    /\ fn_in \in [op : {"evaluate_gates"}, candidate : GateMetrics,
                  baseline : {None} \cup {Some(m) : m \in GateMetrics},
                  gate_config : GateConfigs]
    /\ fn_out = None
    /\ RunnerIdle
    /\ cfg = [p \in Procs |-> CHOOSE c \in RunConfigs : c.variant.dataset_name = "ghost"]
    /\ pc = [p \in Procs |-> "idle"]

CallEvaluateGates ==
    /\ fn_in.op = "evaluate_gates"
    /\ IsNone(fn_out)
    /\ fn_out' = Some(evaluate_gates(fn_in.candidate, fn_in.gate_config, fn_in.baseline))
    /\ UNCHANGED <<fn_in, runner>>

SpecGates == InitGates /\ [][CallEvaluateGates]_vars

-----------------------------------------------------------------------------
(* Claims about evaluate_gates, checked under SpecGates.                   *)

GateCalled == ~IsNone(fn_out) /\ fn_in.op = "evaluate_gates"

FailingChecks(d) == {k \in DOMAIN d.checks : ~d.checks[k].passed}

\* The check a reason message belongs to.
ReasonKey(r) ==
    <<IF r.kind \in {"missing_in_candidate", "below_minimum"} THEN "min_metric" ELSE "max_drop",
      r.metric>>

\* What the candidate (or baseline) holds under a metric name, read off the
\* AggregateMetrics fields: a number, or nothing.
HasNumber(m, name) ==
    \/ name \in {"exact_match", "keyword_coverage", "schema_valid", "sample_count"}
    \/ name = "llm_judge_score" /\ m.llm_judge_score # None

NumberOf(m, name) ==
    CASE name = "exact_match" -> m.exact_match
      [] name = "keyword_coverage" -> m.keyword_coverage
      [] name = "schema_valid" -> m.schema_valid
      [] name = "sample_count" -> m.sample_count * Unit
      [] name = "llm_judge_score" -> m.llm_judge_score[1]

\* C8: evaluate_gates returns status fail iff its reasons list is non-empty,
\* the reasons list has exactly one entry per check whose passed flag is
\* false, and status is pass iff every entry of the checks map passed.
C8_StatusIffReasons ==
    GateCalled =>
        LET d == Val(fn_out)
        IN /\ (d.status = "fail") <=> (d.reasons # <<>>)
           /\ d.status \in {"pass", "fail"}
           /\ Len(d.reasons) = Cardinality(FailingChecks(d))
           /\ {ReasonKey(d.reasons[i]) : i \in 1..Len(d.reasons)} = FailingChecks(d)
           /\ (d.status = "pass") <=> (\A k \in DOMAIN d.checks : d.checks[k].passed)

C8_Witness ==
    /\ GateCalled
    /\ Val(fn_out).status = "fail"
    /\ Len(Val(fn_out).reasons) = 2
    /\ \E k \in DOMAIN Val(fn_out).checks : Val(fn_out).checks[k].passed
    /\ \E k \in DOMAIN Val(fn_out).checks : k[1] = "min_metric" /\ ~Val(fn_out).checks[k].passed

\* C9: for every metric name in GateConfig.min_metric there is a check under
\* min_metric.<name>; it passes iff the candidate has a numeric value for the
\* metric and value >= threshold (equality passes); when the metric is absent
\* on the candidate the check fails with value -1.0 and a reason is added.
C9_MinMetricChecks ==
    GateCalled =>
        LET d    == Val(fn_out)
            cand == fn_in.candidate
            mm   == fn_in.gate_config.min_metric
        IN \A i \in DOMAIN mm :
             LET name      == mm[i][1]
                 threshold == mm[i][2]
                 key       == <<"min_metric", name>>
             IN /\ key \in DOMAIN d.checks
                /\ d.checks[key].threshold = threshold
                /\ d.checks[key].passed <=>
                      (HasNumber(cand, name) /\ NumberOf(cand, name) >= threshold)
                /\ HasNumber(cand, name) => d.checks[key].value = NumberOf(cand, name)
                /\ ~HasNumber(cand, name) =>
                      /\ ~d.checks[key].passed
                      /\ d.checks[key].value = 0 - Unit
                      /\ \E j \in 1..Len(d.reasons) :
                            d.reasons[j] = [kind |-> "missing_in_candidate", metric |-> name]

C9_Witness ==
    /\ GateCalled
    /\ \E i \in DOMAIN fn_in.gate_config.min_metric :
          /\ fn_in.gate_config.min_metric[i] = <<"exact_match", Unit \div 2>>
          /\ fn_in.candidate.exact_match = Unit \div 2
          /\ Val(fn_out).checks[<<"min_metric", "exact_match">>].passed
    /\ \E i \in DOMAIN fn_in.gate_config.min_metric :
          /\ fn_in.gate_config.min_metric[i][1] = "llm_judge_score"
          /\ fn_in.candidate.llm_judge_score = None
          /\ Val(fn_out).checks[<<"min_metric", "llm_judge_score">>].value = 0 - Unit

\* C10: for every metric name in GateConfig.max_drop_from_baseline there is a
\* check under max_drop.<name>; it passes iff candidate and baseline values
\* are both present and baseline - candidate <= max_drop (equality passes, an
\* improvement passes every non-negative max_drop); when the baseline is
\* absent or either value is missing it fails with drop 999.0 and a reason.
C10_MaxDropChecks ==
    GateCalled =>
        LET d    == Val(fn_out)
            cand == fn_in.candidate
            base == fn_in.baseline
            md   == fn_in.gate_config.max_drop_from_baseline
        IN \A i \in DOMAIN md :
             LET name     == md[i][1]
                 max_drop == md[i][2]
                 key      == <<"max_drop", name>>
                 both     == /\ base # None
                             /\ HasNumber(cand, name)
                             /\ HasNumber(base[1], name)
             IN /\ key \in DOMAIN d.checks
                /\ d.checks[key].max_drop = max_drop
                /\ d.checks[key].passed <=>
                      (both /\ NumberOf(base[1], name) - NumberOf(cand, name) <= max_drop)
                /\ both => d.checks[key].drop = NumberOf(base[1], name) - NumberOf(cand, name)
                /\ (both /\ NumberOf(cand, name) >= NumberOf(base[1], name) /\ max_drop >= 0)
                      => d.checks[key].passed
                /\ ~both =>
                      /\ ~d.checks[key].passed
                      /\ d.checks[key].drop = 999 * Unit
                      /\ \E j \in 1..Len(d.reasons) :
                            d.reasons[j] = [kind |-> "missing_for_baseline", metric |-> name]

C10_Witness ==
    /\ GateCalled
    /\ fn_in.baseline # None
    /\ fn_in.gate_config.max_drop_from_baseline =
           << <<"exact_match", Unit \div 2>>, <<"llm_judge_score", 0>> >>
    /\ fn_in.baseline[1].exact_match - fn_in.candidate.exact_match = Unit \div 2
    /\ fn_in.baseline[1].llm_judge_score = None
    /\ Val(fn_out).checks[<<"max_drop", "exact_match">>].passed
    /\ Val(fn_out).checks[<<"max_drop", "llm_judge_score">>].drop = 999 * Unit

-----------------------------------------------------------------------------
(* Claims about the release status, checked under SpecLoop.                *)

AlertsOf(rid) == LET mine(a) == a.run_id = rid IN FilterSeq(mine, drift_alerts)

\* C11: for every completed run the stored release_status is BLOCKED iff the
\* stored gate decision is fail, DRIFT_WARNING iff the gate decision is pass
\* and at least one drift alert is persisted for the run, and APPROVED iff
\* the gate decision is pass and no drift alert is persisted for it.
C11_ReleaseStatusFromGateAndAlerts ==
    \A id \in DOMAIN runs :
        runs[id].status = "completed" =>
            LET gate == Val(runs[id].gate_decision).status
                persisted == AlertsOf(id) # <<>>
            IN /\ runs[id].release_status \in {"BLOCKED", "DRIFT_WARNING", "APPROVED"}
               /\ runs[id].release_status = "BLOCKED" <=> gate = "fail"
               /\ runs[id].release_status = "DRIFT_WARNING" <=> (gate = "pass" /\ persisted)
               /\ runs[id].release_status = "APPROVED" <=> (gate = "pass" /\ ~persisted)

\* A call has completed a run whose gates pass while a drift alert is stored.
C11_Witness ==
    \E p \in Procs :
        /\ Created(p)
        /\ runs[run_id(p)].status = "completed"
        /\ runs[run_id(p)].release_status = "DRIFT_WARNING"
        /\ AlertsOf(run_id(p)) # <<>>

-----------------------------------------------------------------------------
(* build_drift_alerts as a pure function.  Its volatility argument is      *)
(* given by the trend series it was computed from.                         *)

DriftMetricNames == {"exact_match", "schema_valid", "llm_judge_score"}
DriftThresholds == {0 - (Unit \div 2), 0, Unit \div 2, Unit}
DriftScores == {0, Unit \div 2, (3 * Unit) \div 4, Unit}

DriftMetrics ==
    [exact_match : DriftScores, keyword_coverage : {Unit}, schema_valid : {Unit \div 2, Unit},
     llm_judge_score : {None, Some(Unit \div 2)}, sample_count : {2}]

DriftTrends ==
    { [m \in {TrendMetrics[i] : i \in 1..Len(TrendMetrics)} |-> <<>>],
      [m \in {TrendMetrics[i] : i \in 1..Len(TrendMetrics)} |->
          IF m = "exact_match" THEN <<0, Unit>> ELSE <<Unit, Unit>>] }

InitDrift ==
    /\ fn_in \in [op : {"build_drift_alerts"}, candidate : DriftMetrics,
                  baseline : {None} \cup {Some(m) : m \in DriftMetrics},
                  trends : DriftTrends,
                  max_drop_from_baseline : DictsOver(DriftMetricNames, DriftThresholds)]
    /\ fn_out = None
    /\ RunnerIdle
    /\ cfg = [p \in Procs |-> CHOOSE c \in RunConfigs : c.variant.dataset_name = "ghost"]
    /\ pc = [p \in Procs |-> "idle"]

CallBuildDriftAlerts ==
    /\ fn_in.op = "build_drift_alerts"
    /\ IsNone(fn_out)
    /\ fn_out' = IF build_drift_alerts_raises(fn_in.baseline, fn_in.candidate,
                                              fn_in.max_drop_from_baseline)
                  THEN Some([kind |-> "raised", value |-> <<>>])
                  ELSE Some([kind |-> "returned",
                             value |-> build_drift_alerts(fn_in.baseline, fn_in.candidate,
                                           fn_in.trends, fn_in.max_drop_from_baseline)])
    /\ UNCHANGED <<fn_in, runner>>

SpecDrift == InitDrift /\ [][CallBuildDriftAlerts]_vars

DriftReturned ==
    ~IsNone(fn_out) /\ fn_in.op = "build_drift_alerts" /\ Val(fn_out).kind = "returned"

\* The drop alerts of a returned list for one metric: the alerts that carry
\* a delta (a volatility alert carries none).
DropAlertsFor(alerts, metric) ==
    LET isDrop(a) == a.metric = Some(metric) /\ ~IsNone(a.delta) IN FilterSeq(isDrop, alerts)

\* C12: when build_drift_alerts returns, for every metric configured with a
\* max-allowed-drop threshold and a present baseline it has emitted at most
\* one drop alert for that metric: severity critical iff drop > threshold,
\* severity warning iff 0.7 * threshold < drop <= threshold, no drop alert
\* otherwise (drop = baseline - candidate), for every threshold including
\* zero and negative ones; with no baseline it has emitted no drop alert.
C12_DropAlertSeverity ==
    DriftReturned =>
        LET alerts == Val(fn_out).value
            config == fn_in.max_drop_from_baseline
        IN \A i \in DOMAIN config :
             LET metric == config[i][1]
                 threshold == config[i][2]
                 mine == DropAlertsFor(alerts, metric)
             IN IF IsNone(fn_in.baseline) THEN mine = <<>>
                ELSE LET drop == NumberOf(Val(fn_in.baseline), metric)
                                   - NumberOf(fn_in.candidate, metric)
                     IN /\ Len(mine) <= 1
                        /\ (\E k \in DOMAIN mine : mine[k].severity = "critical")
                              <=> drop > threshold
                        /\ (\E k \in DOMAIN mine : mine[k].severity = "warning")
                              <=> (10 * drop > 7 * threshold /\ drop <= threshold)
                        /\ \A k \in DOMAIN mine : mine[k].delta = Some(0 - drop)

\* A call with a baseline returned a critical alert for one metric and a
\* warning for another whose drop equals its threshold.
C12_Witness ==
    /\ DriftReturned
    /\ ~IsNone(fn_in.baseline)
    /\ \E i, j \in DOMAIN fn_in.max_drop_from_baseline :
          LET ci == fn_in.max_drop_from_baseline[i]
              cj == fn_in.max_drop_from_baseline[j]
              dropj == NumberOf(Val(fn_in.baseline), cj[1]) - NumberOf(fn_in.candidate, cj[1])
          IN /\ ci[2] = 0
             /\ \E k \in DOMAIN Val(fn_out).value :
                   /\ Val(fn_out).value[k].metric = Some(ci[1])
                   /\ Val(fn_out).value[k].severity = "critical"
             /\ dropj = cj[2]
             /\ DropAlertsFor(Val(fn_out).value, cj[1]) # <<>>
             /\ DropAlertsFor(Val(fn_out).value, cj[1])[1].severity = "warning"

-----------------------------------------------------------------------------
(* analysis.py: p95 as a pure function.                                    *)

\* sorted(values): a stable insertion sort, ascending.
RECURSIVE InsertAsc(_, _)
InsertAsc(x, s) ==
    IF s = <<>> THEN <<x>>
    ELSE IF x < Head(s) THEN <<x>> \o s
    ELSE <<Head(s)>> \o InsertAsc(x, Tail(s))

RECURSIVE SortedAsc(_)
SortedAsc(values) ==
    IF values = <<>> THEN <<>>
    ELSE InsertAsc(values[Len(values)], SortedAsc(SubSeq(values, 1, Len(values) - 1)))

MinInt(a, b) == IF a < b THEN a ELSE b
MaxInt(a, b) == IF a > b THEN a ELSE b

\* int(math.ceil(0.95 * n)); the float product rounds to the exact ceiling
\* for every length up to 100000.
Ceil95(n) == (95 * n + 99) \div 100

p95_floor(values) ==
    IF values = <<>> THEN None
    ELSE LET ordered == SortedAsc(values)
             idx == MaxInt(0, MinInt(((95 * Len(ordered)) \div 100) - 1, Len(ordered) - 1))
         IN Some(ordered[idx + 1])

p95(values) ==
    IF values = <<>> THEN None
    ELSE LET ordered == SortedAsc(values)
             idx == MaxInt(0, MinInt(Ceil95(Len(ordered)) - 1, Len(ordered) - 1))
         IN Some(ordered[idx + 1])

MaxLatencies == 3
LatencyValues == {10, 20, 30, 40}

Ramp(n) == [i \in 1..n |-> 10 * i]
Reversed(s) == [i \in 1..Len(s) |-> s[Len(s) + 1 - i]]
\* Twenty values with one outlier, in input order.
Outlier(n) == [i \in 1..n |-> IF i = 1 THEN 1000 ELSE 10]

LatencyLists ==
    UNION {[1..n -> LatencyValues] : n \in 0..MaxLatencies}
      \cup {Ramp(10), Reversed(Ramp(10)), Ramp(20), Reversed(Ramp(20)), Ramp(21),
            Reversed(Ramp(21)), Outlier(20), Outlier(19), Ramp(40), Reversed(Ramp(41))}

InitP95 ==
    /\ fn_in \in [op : {"p95"}, values : LatencyLists]
    /\ fn_out = None
    /\ RunnerIdle
    /\ cfg = [p \in Procs |-> CHOOSE c \in RunConfigs : c.variant.dataset_name = "ghost"]
    /\ pc = [p \in Procs |-> "idle"]

CallP95 ==
    /\ fn_in.op = "p95"
    /\ IsNone(fn_out)
    /\ fn_out' = Some([kind |-> "returned", value |-> p95(fn_in.values)])
    /\ UNCHANGED <<fn_in, runner>>

SpecP95 == InitP95 /\ [][CallP95]_vars

P95Called == ~IsNone(fn_out) /\ fn_in.op = "p95"

CountBelow(values, x) == Cardinality({i \in DOMAIN values : values[i] < x})
CountAtMost(values, x) == Cardinality({i \in DOMAIN values : values[i] <= x})

\* C13: for a non-empty list of n latencies p95 returns the element at index
\* clamp(ceil(0.95 * n) - 1, 0, n - 1) of the ascending-sorted list: it is an
\* element of the input, fewer than index + 1 values are below it and at
\* least index + 1 values are at most it, so at least 95% of the values are
\* at most it; p95 of the ten values 10..100 is 100, p95 of one value is
\* that value; for the empty list it returns None.
C13_P95Index ==
    P95Called =>
        LET values == fn_in.values
            n == Len(values)
            result == Val(fn_out).value
        IN IF n = 0 THEN result = None
           ELSE LET k == MaxInt(0, MinInt(Ceil95(n) - 1, n - 1))
                    r == Val(result)
                IN /\ ~IsNone(result)
                   /\ \E i \in DOMAIN values : values[i] = r
                   /\ CountBelow(values, r) <= k
                   /\ CountAtMost(values, r) >= k + 1
                   /\ 100 * CountAtMost(values, r) >= 95 * n
                   /\ values \in {Ramp(10), Reversed(Ramp(10))} => r = 100
                   /\ n = 1 => r = values[1]

\* p95 of twenty values with one outlier has been computed: the result is
\* the nineteenth sorted value, not the maximum.
C13_Witness ==
    /\ P95Called
    /\ fn_in.values = Outlier(20)
    /\ Val(fn_out).value = Some(10)

-----------------------------------------------------------------------------
(* scoring/metrics.py: aggregate_scores as a pure function.                *)

MaxScores == 2

ItemScores ==
    [exact_match : {0, Unit}, keyword_coverage : {0, Unit \div 2, Unit},
     schema_valid : {0, Unit}, llm_judge_score : {None, Some(Unit \div 2)}]

InitAggregate ==
    /\ fn_in \in [op : {"aggregate_scores"},
                  scores : UNION {[1..n -> ItemScores] : n \in 0..MaxScores}]
    /\ fn_out = None
    /\ RunnerIdle
    /\ cfg = [p \in Procs |-> CHOOSE c \in RunConfigs : c.variant.dataset_name = "ghost"]
    /\ pc = [p \in Procs |-> "idle"]

CallAggregateScores ==
    /\ fn_in.op = "aggregate_scores"
    /\ IsNone(fn_out)
    /\ fn_out' = IF aggregate_scores_raises(fn_in.scores)
                  THEN Some([kind |-> "raised", value |-> "ValueError"])
                  ELSE Some([kind |-> "returned", value |-> aggregate_scores(fn_in.scores)])
    /\ UNCHANGED <<fn_in, runner>>

SpecAggregate == InitAggregate /\ [][CallAggregateScores]_vars

AggregateCalled == ~IsNone(fn_out) /\ fn_in.op = "aggregate_scores"

FieldSum(scores, field) == SumSeq([i \in 1..Len(scores) |-> scores[i][field]])

PerfectScore ==
    [exact_match |-> Unit, keyword_coverage |-> Unit, schema_valid |-> Unit,
     llm_judge_score |-> None]
PartialScore ==
    [exact_match |-> 0, keyword_coverage |-> Unit \div 2, schema_valid |-> Unit,
     llm_judge_score |-> None]

\* C14: for a list of n >= 1 item scores aggregate_scores returns
\* exact_match, keyword_coverage and schema_valid each equal to the sum of
\* the field over all items divided by n, and sample_count = n (the scores
\* (1, 1, 1) and (0, 0.5, 1) give 0.5, 0.75, 1.0 and count 2); for the empty
\* list it raises instead of returning metrics.
C14_AggregateIsMean ==
    AggregateCalled =>
        LET scores == fn_in.scores
            n == Len(scores)
            out == Val(fn_out)
        IN IF n = 0 THEN out.kind = "raised"
           ELSE /\ out.kind = "returned"
                /\ \A field \in MetricFields : n * out.value[field] = FieldSum(scores, field)
                /\ out.value.sample_count = n
                /\ scores = <<PerfectScore, PartialScore>> =>
                      /\ out.value.exact_match = Unit \div 2
                      /\ out.value.keyword_coverage = (3 * Unit) \div 4
                      /\ out.value.schema_valid = Unit

\* The two-item example has been aggregated.
C14_Witness ==
    /\ AggregateCalled
    /\ fn_in.scores = <<PerfectScore, PartialScore>>
    /\ Val(fn_out).kind = "returned"
    /\ Val(fn_out).value.keyword_coverage = (3 * Unit) \div 4

-----------------------------------------------------------------------------
(* scoring/metrics.py: keyword_coverage_score as a pure function, next to  *)
(* one call of run that scores its items with it.                          *)

MaxKeywords == 2

KeywordChoices == {<<>>, <<"a">>, <<"K">>, <<"a", "k">>}
OutputChoices == {<<>>, <<"A">>, <<"k">>, <<" ", "k">>, <<"a", "K">>, <<"k", "a">>}

\* One call of run, alone, and one call of keyword_coverage_score.
InitKeywords ==
    /\ fn_in \in [op : {"keyword_coverage_score"},
                  keywords : UNION {[1..n -> KeywordChoices] : n \in 0..MaxKeywords},
                  output : OutputChoices]
    /\ fn_out = None
    /\ RunnerIdle
    /\ cfg \in {c \in [Procs -> LoopConfigs] : \A p \in Procs : c[p] = c[1]}
    /\ pc = [p \in Procs |-> IF p = 1 THEN "get_dataset" ELSE "idle"]

CallKeywordCoverage ==
    /\ ~IsNone(fn_in)
    /\ fn_in.op = "keyword_coverage_score"
    /\ IsNone(fn_out)
    /\ fn_out' = Some([kind |-> "returned",
                       value |-> keyword_coverage_score(fn_in.keywords, fn_in.output)])
    /\ UNCHANGED <<fn_in, runner>>

NextKeywords == Next \/ CallKeywordCoverage

SpecKeywords == InitKeywords /\ [][NextKeywords]_vars

KeywordsCalled ==
    ~IsNone(fn_in) /\ ~IsNone(fn_out) /\ fn_in.op = "keyword_coverage_score"

\* The positions of the required keywords that occur in the output as
\* case-insensitive substrings.
FoundAt(keywords, output) ==
    {i \in DOMAIN keywords :
        \E j \in 0..(Len(output) - Len(keywords[i])) :
            \A k \in 1..Len(keywords[i]) :
                LowerChar(output[j + k]) = LowerChar(keywords[i][k])}

RECURSIVE Pick(_, _, _)
\* The entries of s at the positions of S, in order, from position i on.
Pick(s, S, i) ==
    IF i > Len(s) THEN <<>>
    ELSE (IF i \in S THEN <<s[i]>> ELSE <<>>) \o Pick(s, S, i + 1)

\* C15: keyword_coverage_score returns (number of required keywords found in
\* the output) / (number of required keywords), a value in [0, 1], and
\* exactly 1.0 for every output when the keyword list is empty; in every
\* ItemResult produced by a run keyword_misses is exactly the list of
\* required keywords not found, so it is empty iff keyword_coverage = 1.0.
C15_KeywordCoverage ==
    /\ KeywordsCalled =>
          LET keywords == fn_in.keywords
              score == Val(fn_out).value
          IN /\ 0 <= score /\ score <= Unit
             /\ keywords = <<>> => score = Unit
             /\ keywords # <<>> =>
                   Len(keywords) * score = Cardinality(FoundAt(keywords, fn_in.output)) * Unit
    /\ \A r \in ProducedResults :
          LET found == FoundAt(r.keywords, r.output_text)
          IN /\ r.keyword_misses = Pick(r.keywords, (DOMAIN r.keywords) \ found, 1)
             /\ r.keyword_misses = <<>> <=> r.scores.keyword_coverage = Unit

\* A keyword list with one of two keywords found has been scored, and the
\* run has produced a result that misses one of its two keywords.
C15_Witness ==
    /\ KeywordsCalled
    /\ fn_in.keywords = << <<"a", "k">>, <<"K">> >>
    /\ fn_in.output = <<" ", "k">>
    /\ Val(fn_out).value = Unit \div 2
    /\ \E r \in ProducedResults :
          /\ r.keywords = << <<"a">>, <<"K">> >>
          /\ r.keyword_misses = << <<"K">> >>
          /\ r.scores.keyword_coverage = Unit \div 2

-----------------------------------------------------------------------------
(* analysis.py: worst_failures as a pure function.                         *)

\* `if row.error:` and `if row.schema_error:`: None and the empty string
\* are both false.
Truthy(x) == ~IsNone(x) /\ Val(x) # ""

\* lines 127-134 of worst_failures
severity_of(row) ==
    (IF Truthy(row.error) THEN 4 * Unit ELSE 0)
      + (IF Truthy(row.schema_error) THEN 3 * Unit ELSE 0)
      + (Unit - row.scores.exact_match) * 2
      + (Unit - row.scores.keyword_coverage) * 2
      + (Unit - row.scores.schema_valid) * 3

FailureSample(row) ==
    [item_id |-> row.item_id, severity |-> severity_of(row), error |-> row.error,
     schema_error |-> row.schema_error, scores |-> row.scores]

RECURSIVE InsertDescUnstable(_, _)
InsertDescUnstable(x, s) ==
    IF s = <<>> THEN <<x>>
    ELSE IF x.severity >= Head(s).severity THEN <<x>> \o s
    ELSE <<Head(s)>> \o InsertDescUnstable(x, Tail(s))

\* ranked.sort(key=severity, reverse=True) is stable: a sample goes after
\* every sample of the same or a higher severity that precedes it.
RECURSIVE InsertDesc(_, _)
InsertDesc(x, s) ==
    IF s = <<>> THEN <<x>>
    ELSE IF x.severity > Head(s).severity THEN <<x>> \o s
    ELSE <<Head(s)>> \o InsertDesc(x, Tail(s))

RECURSIVE SortedDesc(_)
SortedDesc(samples) ==
    IF samples = <<>> THEN <<>>
    ELSE InsertDesc(samples[Len(samples)], SortedDesc(SubSeq(samples, 1, Len(samples) - 1)))

\* worst_failures, for limit >= 0 (its callers pass len(results) or 10).
worst_failures(results, limit) ==
    LET ranked == SortedDesc([i \in 1..Len(results) |-> FailureSample(results[i])])
    IN SubSeq(ranked, 1, MinInt(limit, Len(ranked)))

MaxRows == 2

\* The item results a run stores: schema_error is set exactly when
\* schema_valid is 0.0 (both come from the same validation of the output).
RowShapes ==
    {r \in [error : {None, Some(""), Some("boom")}, schema_error : {None, Some("bad")},
            scores : [exact_match : {0, Unit}, keyword_coverage : {0, Unit},
                      schema_valid : {0, Unit}, llm_judge_score : {None}]] :
        IsNone(r.schema_error) <=> r.scores.schema_valid = Unit}

\* Item results whose item_id is their position in the list.
RowLists ==
    {[i \in DOMAIN s |-> [item_id |-> i, error |-> s[i].error,
                          schema_error |-> s[i].schema_error, scores |-> s[i].scores]] :
        s \in UNION {[1..n -> RowShapes] : n \in 0..MaxRows}}

InitFailures ==
    /\ fn_in \in [op : {"worst_failures"}, results : RowLists, limit : 0..(MaxRows + 1)]
    /\ fn_out = None
    /\ RunnerIdle
    /\ cfg = [p \in Procs |-> CHOOSE c \in RunConfigs : c.variant.dataset_name = "ghost"]
    /\ pc = [p \in Procs |-> "idle"]

CallWorstFailures ==
    /\ fn_in.op = "worst_failures"
    /\ IsNone(fn_out)
    /\ fn_out' = Some([kind |-> "returned",
                       value |-> worst_failures(fn_in.results, fn_in.limit)])
    /\ UNCHANGED <<fn_in, runner>>

SpecFailures == InitFailures /\ [][CallWorstFailures]_vars

FailuresCalled == ~IsNone(fn_out) /\ fn_in.op = "worst_failures"

\* The severity the ranking is specified by, in units of 1/Unit.
SpecSeverity(row) ==
    (IF row.error \notin {None, Some("")} THEN 4 * Unit ELSE 0)
      + (IF row.schema_error \notin {None, Some("")} THEN 3 * Unit ELSE 0)
      + 2 * (Unit - row.scores.exact_match)
      + 2 * (Unit - row.scores.keyword_coverage)
      + 3 * (Unit - row.scores.schema_valid)

\* Row i comes before row j in the full ranking.
RanksBefore(rows, i, j) ==
    \/ SpecSeverity(rows[i]) > SpecSeverity(rows[j])
    \/ SpecSeverity(rows[i]) = SpecSeverity(rows[j]) /\ i < j

\* C16: worst_failures returns min(limit, n) samples ordered by
\* non-increasing severity, where severity = 4 if error is present (a
\* non-empty string) + 3 if schema_error is present + 2 * (1 - exact_match)
\* + 2 * (1 - keyword_coverage) + 3 * (1 - schema_valid); two items of equal
\* severity appear in their input order, and the returned samples are the
\* top of the full ranking.
C16_WorstFailuresRanking ==
    FailuresCalled =>
        LET rows == fn_in.results
            out == Val(fn_out).value
            ids == {out[k].item_id : k \in DOMAIN out}
        IN /\ Len(out) = MinInt(fn_in.limit, Len(rows))
           /\ ids \subseteq DOMAIN rows
           /\ Cardinality(ids) = Len(out)
           /\ \A k \in DOMAIN out : out[k].severity = SpecSeverity(rows[out[k].item_id])
           /\ \A k \in DOMAIN out : \A m \in DOMAIN out :
                 k < m => RanksBefore(rows, out[k].item_id, out[m].item_id)
           /\ \A j \in (DOMAIN rows) \ ids : \A k \in DOMAIN out :
                 RanksBefore(rows, out[k].item_id, j)

\* Both of two items of equal severity have been returned, in input order.
C16_Witness ==
    /\ FailuresCalled
    /\ Len(Val(fn_out).value) >= 2
    /\ Val(fn_out).value[1].severity = Val(fn_out).value[2].severity
    /\ Val(fn_out).value[1].severity > 0
    /\ Val(fn_out).value[1].item_id < Val(fn_out).value[2].item_id

\* C17: in the failure ranking of any item list, an item A with error set
\* ranks above every item B that has neither error nor schema_error, for
\* every combination of their scores and every input order of A and B.
C17_ErrorOutranksClean ==
    (FailuresCalled /\ fn_in.limit >= Len(fn_in.results)) =>
        LET rows == fn_in.results
            out == Val(fn_out).value
        IN \A a \in DOMAIN out : \A b \in DOMAIN out :
              (/\ rows[out[a].item_id].error \notin {None, Some("")}
               /\ rows[out[b].item_id].error = None
               /\ rows[out[b].item_id].schema_error = None)
                  => a < b

-----------------------------------------------------------------------------
(* analysis.py: build_threshold_overlay as a pure function.                *)

\* d.get(key, default) for a dict given as a sequence of <<key, value>> pairs.
DictGet(d, key, default) ==
    IF \E i \in DOMAIN d : d[i][1] = key
    THEN d[CHOOSE i \in DOMAIN d : d[i][1] = key][2]
    ELSE default

OverlayEntryStrict(delta, allowed_drop) ==
    LET actual_drop == MaxInt(0, 0 - delta)
        breach == MaxInt(0, actual_drop - allowed_drop)
    IN [delta |-> delta, allowed_drop |-> allowed_drop, actual_drop |-> actual_drop,
        breach |-> breach, passed |-> actual_drop < allowed_drop]

\* lines 177-186: the entry of one metric.
OverlayEntry(delta, allowed_drop) ==
    LET actual_drop == MaxInt(0, 0 - delta)
        breach == MaxInt(0, actual_drop - allowed_drop)
    IN [delta |-> delta, allowed_drop |-> allowed_drop, actual_drop |-> actual_drop,
        breach |-> breach, passed |-> breach = 0]

build_threshold_overlay(deltas, allowed_drops) ==
    [metric \in {deltas[i][1] : i \in DOMAIN deltas} |->
        OverlayEntry(DictGet(deltas, metric, 0), DictGet(allowed_drops, metric, 0))]

OverlayDeltas == {0 - (Unit \div 2), 0 - (Unit \div 10), 0, Unit \div 10}
OverlayDrops == {0 - (Unit \div 10), 0, Unit \div 10, Unit \div 2}

InitOverlay ==
    /\ fn_in \in [op : {"build_threshold_overlay"},
                  deltas : DictsOver(MetricFields, OverlayDeltas),
                  allowed_drops : DictsOver(MetricFields, OverlayDrops)]
    /\ fn_out = None
    /\ RunnerIdle
    /\ cfg = [p \in Procs |-> CHOOSE c \in RunConfigs : c.variant.dataset_name = "ghost"]
    /\ pc = [p \in Procs |-> "idle"]

CallBuildThresholdOverlay ==
    /\ fn_in.op = "build_threshold_overlay"
    /\ IsNone(fn_out)
    /\ fn_out' = Some([kind |-> "returned",
                       value |-> build_threshold_overlay(fn_in.deltas, fn_in.allowed_drops)])
    /\ UNCHANGED <<fn_in, runner>>

SpecOverlay == InitOverlay /\ [][CallBuildThresholdOverlay]_vars

OverlayCalled == ~IsNone(fn_out) /\ fn_in.op = "build_threshold_overlay"

\* C18: every entry build_threshold_overlay produces has breach = 0.0 iff
\* passed is true, for all (delta, allowed_drop) pairs including
\* allowed_drop = 0 and metrics missing from allowed_drops (treated as
\* allowed_drop 0); an improvement (delta >= 0) has actual_drop 0.  There is
\* one entry per metric of deltas, and it passes exactly when the drop
\* max(0, -delta) is at most the allowed drop.
C18_BreachIffNotPassed ==
    OverlayCalled =>
        LET overlay == Val(fn_out).value
        IN /\ DOMAIN overlay = {fn_in.deltas[i][1] : i \in DOMAIN fn_in.deltas}
           /\ \A i \in DOMAIN fn_in.deltas :
                 LET metric == fn_in.deltas[i][1]
                     delta == fn_in.deltas[i][2]
                     entry == overlay[metric]
                     configured == {j \in DOMAIN fn_in.allowed_drops :
                                       fn_in.allowed_drops[j][1] = metric}
                 IN /\ entry.breach = 0 <=> entry.passed
                    /\ entry.breach >= 0
                    /\ configured = {} => entry.allowed_drop = 0
                    /\ \A j \in configured : entry.allowed_drop = fn_in.allowed_drops[j][2]
                    /\ delta >= 0 => entry.actual_drop = 0
                    /\ delta < 0 => entry.actual_drop = 0 - delta
                    /\ entry.passed <=> entry.actual_drop <= entry.allowed_drop

\* An overlay has been built with a metric missing from allowed_drops that
\* dropped (so it fails with allowed drop 0) and a metric whose drop equals
\* its allowed drop (so it passes with breach 0).
C18_Witness ==
    /\ OverlayCalled
    /\ \E m1, m2 \in DOMAIN Val(fn_out).value :
          /\ \A j \in DOMAIN fn_in.allowed_drops : fn_in.allowed_drops[j][1] # m1
          /\ Val(fn_out).value[m1].breach > 0
          /\ ~Val(fn_out).value[m1].passed
          /\ Val(fn_out).value[m2].actual_drop = Unit \div 10
          /\ Val(fn_out).value[m2].allowed_drop = Unit \div 10
          /\ Val(fn_out).value[m2].passed

-----------------------------------------------------------------------------
(* config.py: build_run_key and build_fingerprints as pure functions, as   *)
(* run calls them (experiment.py lines 57-78) for two configurations.      *)

\* f"{temperature:.6f}": a temperature in units of 1e-7, rounded to units
\* of 1e-6.
Format6(temperature) == (temperature + 5) \div 10

\* stable_hash of each payload, the digest taken as collision-free: a
\* fingerprint is the payload it digests.
build_fingerprints(v) ==
    LET dataset_fingerprint == <<v.dataset_name, v.dataset_version, v.dataset_checksum>>
        prompt_fingerprint == <<v.prompt_version, v.prompt_template>>
        config_fingerprint ==
            <<v.model_name, v.retrieval_enabled, v.llm_judge_enabled, v.llm_judge_model,
              Format6(v.temperature), v.seed, prompt_fingerprint, dataset_fingerprint>>
    IN [dataset_fingerprint |-> dataset_fingerprint,
        prompt_fingerprint |-> prompt_fingerprint,
        config_fingerprint |-> config_fingerprint,
        experiment_signature |->
            <<dataset_fingerprint, prompt_fingerprint, config_fingerprint, "1">>]

KeyFields ==
    {"dataset_name", "dataset_version", "prompt_version", "model_name",
     "retrieval_enabled", "llm_judge_enabled", "seed"}

IdentityFields ==
    KeyFields \cup {"dataset_checksum", "prompt_template", "llm_judge_model", "temperature"}

\* Temperatures in units of 1e-7: 0.0, 0.7, 0.7000001 and 0.8.
Temperatures == {0, 7000000, 7000001, 8000000}

IdentityInputs ==
    [dataset_name : {"qa", "solo"}, dataset_version : {"v1", "v2"},
     dataset_checksum : {"c1", "c2"}, prompt_version : {"p1", "p2"},
     prompt_template : {"{prompt}", "Q: {prompt}"}, model_name : {"m1", "m2"},
     retrieval_enabled : BOOLEAN, llm_judge_enabled : BOOLEAN,
     llm_judge_model : {None, Some("judge")}, temperature : Temperatures,
     seed : {42, 43}]

BaseIdentity ==
    [dataset_name |-> "qa", dataset_version |-> "v1", dataset_checksum |-> "c1",
     prompt_version |-> "p1", prompt_template |-> "{prompt}", model_name |-> "m1",
     retrieval_enabled |-> FALSE, llm_judge_enabled |-> FALSE, llm_judge_model |-> None,
     temperature |-> 7000000, seed |-> 42]

OtherIdentity ==
    [dataset_name |-> "solo", dataset_version |-> "v2", dataset_checksum |-> "c2",
     prompt_version |-> "p2", prompt_template |-> "Q: {prompt}", model_name |-> "m2",
     retrieval_enabled |-> TRUE, llm_judge_enabled |-> TRUE,
     llm_judge_model |-> Some("judge"), temperature |-> 0, seed |-> 43]

InitIdentity ==
    /\ fn_in \in [op : {"identity"}, a : {BaseIdentity, OtherIdentity}, b : IdentityInputs]
    /\ fn_out = None
    /\ RunnerIdle
    /\ cfg = [p \in Procs |-> CHOOSE c \in RunConfigs : c.variant.dataset_name = "ghost"]
    /\ pc = [p \in Procs |-> "idle"]

CallBuildIdentity ==
    /\ fn_in.op = "identity"
    /\ IsNone(fn_out)
    /\ fn_out' = Some([kind |-> "returned",
                       run_key_a |-> build_run_key(fn_in.a),
                       run_key_b |-> build_run_key(fn_in.b),
                       fingerprints_a |-> build_fingerprints(fn_in.a),
                       fingerprints_b |-> build_fingerprints(fn_in.b)])
    /\ UNCHANGED <<fn_in, runner>>

SpecIdentity == InitIdentity /\ [][CallBuildIdentity]_vars

IdentityCalled == ~IsNone(fn_out) /\ fn_in.op = "identity"

DifferingFields(a, b) == {f \in IdentityFields : a[f] # b[f]}

\* C19: the run_key is a function of exactly the seven fields dataset name,
\* dataset version, prompt version, model name, retrieval flag, judge flag
\* and seed: two configurations that agree on the seven get the same key
\* whatever their temperature, prompt template, dataset checksum or judge
\* model, and two that differ in any of the seven get different keys.
C19_RunKeyOfSevenFields ==
    IdentityCalled =>
        (Val(fn_out).run_key_a = Val(fn_out).run_key_b
            <=> DifferingFields(fn_in.a, fn_in.b) \cap KeyFields = {})

\* Two configurations that differ in all four fields outside the key, and
\* in none of the seven, got the same key.
C19_Witness ==
    /\ IdentityCalled
    /\ DifferingFields(fn_in.a, fn_in.b) = IdentityFields \ KeyFields
    /\ Val(fn_out).run_key_a = Val(fn_out).run_key_b

\* The fingerprint that covers an input field.
CoveringFingerprint(f) ==
    IF f \in {"dataset_name", "dataset_version", "dataset_checksum"} THEN "dataset_fingerprint"
    ELSE IF f \in {"prompt_version", "prompt_template"} THEN "prompt_fingerprint"
    ELSE "config_fingerprint"

\* C20: for two input sets of build_fingerprints that differ in exactly one
\* field, the fingerprint covering that field differs and the
\* experiment_signature differs; this includes any change of temperature,
\* however small.
C20_SingleFieldChangesFingerprint ==
    IdentityCalled =>
        \A f \in IdentityFields :
            DifferingFields(fn_in.a, fn_in.b) = {f} =>
                /\ Val(fn_out).fingerprints_a[CoveringFingerprint(f)]
                     # Val(fn_out).fingerprints_b[CoveringFingerprint(f)]
                /\ Val(fn_out).fingerprints_a.experiment_signature
                     # Val(fn_out).fingerprints_b.experiment_signature

-----------------------------------------------------------------------------
(* Claims about the execution loop and the pipeline of run, second part.   *)

\* C21: the latency recorded on each ItemResult covers the generation call
\* only: the interval ends when that call returns or raises, before any
\* judge call for the item begins, so judge time is never included.
C21_LatencyIsGenerationOnly ==
    \A r \in ProducedResults : r.latency_ms = GenerateMs

\* What a completed run of call p stores when no other call runs beside it:
\* computed from its own item results, its configuration, its baseline and
\* the runs the store held before the calls began.
AloneBaseline(p) ==
    IF IsNone(cfg[p].gates.baseline_run_id) THEN None ELSE HistRun.aggregate_metrics

AloneAggregate(p) == aggregate_scores(ScoresOf(RowsOf(run_id(p))))

AloneGate(p) == evaluate_gates(AloneAggregate(p), cfg[p].gates, AloneBaseline(p))

AloneAlerts(p) ==
    LET sameDataset(r) == /\ r.dataset_name = cfg[p].variant.dataset_name
                          /\ r.dataset_version = cfg[p].variant.dataset_version
        copy == [NewRunRecord(p) EXCEPT !.aggregate_metrics = Some(AloneAggregate(p))]
        trends == Trends(Append(FilterSeq(sameDataset, <<HistRun>>), copy))
    IN build_drift_alerts(AloneBaseline(p), AloneAggregate(p), trends,
                          cfg[p].gates.max_drop_from_baseline)

AlertBody(a) ==
    [scope |-> a.scope, metric |-> a.metric, severity |-> a.severity, delta |-> a.delta,
     threshold |-> a.threshold]

StoredAlerts(rid) == [i \in 1..Len(AlertsOf(rid)) |-> AlertBody(AlertsOf(rid)[i])]

\* C22: when runs with different run_keys execute concurrently, each
\* completed run's stored aggregate metrics, gate decision, drift alerts and
\* release status are what the run computes alone: they depend only on the
\* run's own configuration, items, backend outputs and baseline, not on
\* when another run creates its record or completes.
C22_OutcomeIndependentOfOtherRuns ==
    \A p \in Procs :
        (/\ \A q \in Procs \ {p} : run_key(q) # run_key(p)
         /\ Created(p)
         /\ runs[run_id(p)].status = "completed")
            => /\ runs[run_id(p)].aggregate_metrics = Some(AloneAggregate(p))
               /\ runs[run_id(p)].gate_decision = Some(AloneGate(p))
               /\ StoredAlerts(run_id(p)) = AloneAlerts(p)
               /\ runs[run_id(p)].release_status
                    = compute_release_status(AloneGate(p), AloneAlerts(p))


\* The runs of call p's dataset that have aggregate metrics when call p
\* computes its trends, the candidate with its new aggregate among them,
\* each once, in start-time order.
RunsInStartOrder(p) ==
    LET completedOthers ==
            {runs[id] : id \in {i \in DOMAIN runs :
                /\ i # run_id(p)
                /\ runs[i].dataset_name = cfg[p].variant.dataset_name
                /\ runs[i].dataset_version = cfg[p].variant.dataset_version
                /\ ~IsNone(runs[i].aggregate_metrics)}}
        candidate == [NewRunRecord(p) EXCEPT !.aggregate_metrics = loc[p].aggregate]
    IN SortByStart(completedOthers \cup {candidate})

\* C23: the trend series a run computes while it completes hold, per
\* metric, one value per run of the dataset that has aggregate metrics, the
\* candidate once, in run start-time order, also when another run of the
\* dataset started after the candidate and completed before it.
C23_TrendsInStartOrder ==
    [][\A p \in Procs :
          (pc[p] = "list_runs" /\ pc'[p] = "replace_drift_alerts")
              => loc'[p].trends = Some(Trends(RunsInStartOrder(p)))]_vars


\* The metrics with a max-allowed-drop threshold in call p's configuration
\* that the baseline run carries no value for.
MissingDropMetrics(p) ==
    IF IsNone(cfg[p].gates.baseline_run_id) \/ cfg[p].gates.baseline_run_id # Some(HistRunId)
    THEN {}
    ELSE {cfg[p].gates.max_drop_from_baseline[i][1] :
            i \in {j \in DOMAIN cfg[p].gates.max_drop_from_baseline :
                     IsNone(metric_value(HistMetrics,
                                         cfg[p].gates.max_drop_from_baseline[j][1]))}}

\* C24: a run with a baseline and a max-allowed-drop threshold on a metric
\* that has no value still reaches completed when no repository call fails,
\* with a failing max_drop check for the metric, gate status fail and
\* release status BLOCKED.
C24_MissingDropMetricCompletesBlocked ==
    \A p \in Procs :
        (/\ MissingDropMetrics(p) # {}
         /\ Created(p)
         /\ pc[p] = "done"
         /\ outcome[p].exc \notin {"DbError", "DbError:handler"})
            => /\ runs[run_id(p)].status = "completed"
               /\ Val(runs[run_id(p)].gate_decision).status = "fail"
               /\ \A m \in MissingDropMetrics(p) :
                     ~Val(runs[run_id(p)].gate_decision).checks[<<"max_drop", m>>].passed
               /\ runs[run_id(p)].release_status = "BLOCKED"


\* C25: in every reachable state a run whose status is running or failed has
\* release_status BLOCKED: the release status is written with the transition
\* to completed only, and APPROVED or DRIFT_WARNING is never seen on a run
\* that is not completed.
C25_ReleaseBlockedUnlessCompleted ==
    \A id \in DOMAIN runs :
        runs[id].status \in {"running", "failed"} => runs[id].release_status = "BLOCKED"


\* C26: every run for which create_run succeeded reaches completed or
\* failed, provided every backend and repository call returns or raises:
\* when the call of run has ended, the run's stored status is not running.
C26_EndedRunIsTerminal ==
    \A p \in Procs :
        (Created(p) /\ pc[p] = "done") => runs[run_id(p)].status \in Terminal


\* The rows of one run in a table of item results, of tag metrics, of drift
\* alerts.
ItemRowsIn(table, rid) == LET mine(r) == r.run_id = rid IN FilterSeq(mine, table)
TagRowsIn(table, rid) == {m \in table : m.run_id = rid}

\* C27: when a run's status becomes completed its item results, tag metrics
\* and drift alerts are already in the store, and no step of run writes any
\* of them for a run whose status is completed.
C27_PersistedBeforeCompleted ==
    [][/\ \A p \in Procs :
            (/\ Created(p)
             /\ pc[p] = "update_completed"
             /\ runs[run_id(p)].status = "running"
             /\ runs'[run_id(p)].status = "completed")
                => /\ ItemRowsIn(item_results, run_id(p)) = loc[p].results
                   /\ TagRowsIn(tag_metrics, run_id(p))
                        = build_tag_metrics(run_id(p), loc[p].results)
                   /\ ItemRowsIn(drift_alerts, run_id(p)) = DriftRecords(p)
       /\ \A id \in DOMAIN runs :
            runs[id].status = "completed"
                => /\ ItemRowsIn(item_results', id) = ItemRowsIn(item_results, id)
                   /\ TagRowsIn(tag_metrics', id) = TagRowsIn(tag_metrics, id)
                   /\ ItemRowsIn(drift_alerts', id) = ItemRowsIn(drift_alerts, id)]_vars

C27_Witness ==
    \E p \in Procs :
        /\ Created(p)
        /\ pc[p] = "done"
        /\ runs[run_id(p)].status = "completed"
        /\ Len(RowsOf(run_id(p))) = Len(DatasetOf(p))
        /\ TagRowsIn(tag_metrics, run_id(p)) # {}
        /\ AlertsOf(run_id(p)) # <<>>


CriticalMetrics(id) ==
    {Val(AlertsOf(id)[i].metric) :
        i \in {j \in 1..Len(AlertsOf(id)) : AlertsOf(id)[j].severity = "critical"}}

\* C28: for every completed run: if its release status is DRIFT_WARNING then
\* every drift alert persisted for it has severity warning; a critical
\* alert is persisted for a metric exactly when that metric's max_drop gate
\* check fails with both values present; and a critical alert implies gate
\* status fail and release status BLOCKED.
C28_CriticalAlertIffDropCheckFails ==
    \A id \in DOMAIN runs :
        runs[id].status = "completed" =>
            LET gate == Val(runs[id].gate_decision)
                dropKeys == {k \in DOMAIN gate.checks : k[1] = "max_drop"}
            IN /\ runs[id].release_status = "DRIFT_WARNING"
                    => \A i \in 1..Len(AlertsOf(id)) : AlertsOf(id)[i].severity = "warning"
               /\ \A k \in dropKeys :
                     k[2] \in CriticalMetrics(id)
                        <=> (~gate.checks[k].passed /\ gate.checks[k].drop # MissingDrop)
               /\ \A m \in CriticalMetrics(id) : <<"max_drop", m>> \in dropKeys
               /\ CriticalMetrics(id) # {}
                    => gate.status = "fail" /\ runs[id].release_status = "BLOCKED"

C28_Witness ==
    /\ \E id \in DOMAIN runs :
          /\ runs[id].status = "completed"
          /\ CriticalMetrics(id) # {}
          /\ runs[id].release_status = "BLOCKED"


-----------------------------------------------------------------------------
(* service.py: compare_runs, over a store that holds a baseline run and a  *)
(* candidate run.                                                          *)

\* runner/experiment.py, compute_metric_deltas: candidate - baseline per
\* metric, llm_judge_score only when both runs carry it.
compute_metric_deltas(candidate, baseline) ==
    << <<"exact_match", candidate.exact_match - baseline.exact_match>>,
       <<"keyword_coverage", candidate.keyword_coverage - baseline.keyword_coverage>>,
       <<"schema_valid", candidate.schema_valid - baseline.schema_valid>> >>
    \o (IF ~IsNone(candidate.llm_judge_score) /\ ~IsNone(baseline.llm_judge_score)
        THEN << <<"llm_judge_score",
                  Val(candidate.llm_judge_score) - Val(baseline.llm_judge_score)>> >>
        ELSE <<>>)

compare_runs(baseline_run_id, candidate_run_id, gate_config) ==
    LET baseline == get_run(baseline_run_id)
        candidate == get_run(candidate_run_id)
    IN IF IsNone(baseline) \/ IsNone(Val(baseline).aggregate_metrics)
       THEN [kind |-> "raised", value |-> "ValueError:baseline"]
       ELSE IF IsNone(candidate) \/ IsNone(Val(candidate).aggregate_metrics)
       THEN [kind |-> "raised", value |-> "ValueError:candidate"]
       ELSE LET base_metrics == Val(Val(baseline).aggregate_metrics)
                cand_metrics == Val(Val(candidate).aggregate_metrics)
                effective_gate_config == IF IsNone(gate_config) THEN NoGates
                                         ELSE Val(gate_config)
                deltas == compute_metric_deltas(cand_metrics, base_metrics)
            IN [kind |-> "returned",
                value |-> [baseline_run_id |-> baseline_run_id,
                           candidate_run_id |-> candidate_run_id,
                           baseline_metrics |-> base_metrics,
                           candidate_metrics |-> cand_metrics,
                           deltas |-> deltas,
                           gate_decision |-> evaluate_gates(cand_metrics, effective_gate_config,
                                                            Some(base_metrics)),
                           threshold_overlay |->
                               build_threshold_overlay(deltas,
                                   effective_gate_config.max_drop_from_baseline)]]

CandRunId == <<build_run_key(Variant("qa", "m1", TRUE)), 1>>

CompareMetrics ==
    [exact_match : {0, Unit \div 2, Unit}, keyword_coverage : {Unit \div 2},
     schema_valid : {Unit}, llm_judge_score : {None, Some(Unit \div 2)}, sample_count : {2}]

CompareDrops == {0 - (Unit \div 10), 0, Unit \div 2}

CompareGateConfigs ==
    [baseline_run_id : {None}, min_metric : {<<>>},
     max_drop_from_baseline : DictsOver({"exact_match", "llm_judge_score"}, CompareDrops)]

\* The store: the baseline run and the candidate run, each completed with
\* aggregate metrics or without any.
CompareStores ==
    {[id \in {HistRunId, CandRunId} |->
        IF id = HistRunId
        THEN [HistRun EXCEPT !.aggregate_metrics = b]
        ELSE [HistRun EXCEPT !.run_id = CandRunId, !.run_key = CandRunId[1],
                             !.started_at = 1, !.aggregate_metrics = c]] :
        b \in {None} \cup {Some(m) : m \in CompareMetrics},
        c \in {None} \cup {Some(m) : m \in CompareMetrics}}

InitCompare ==
    /\ fn_in \in [op : {"compare_runs"}, baseline_run_id : {HistRunId, MissingRunId},
                  candidate_run_id : {CandRunId},
                  gate_config : {None} \cup {Some(g) : g \in CompareGateConfigs}]
    /\ fn_out = None
    /\ runs \in CompareStores
    /\ item_results = <<>>
    /\ tag_metrics = {}
    /\ drift_alerts = <<>>
    /\ clock = 1
    /\ loc = [p \in Procs |-> InitLoc]
    /\ backend_calls = [p \in Procs |-> 0]
    /\ outcome = [p \in Procs |-> [kind |-> "none", exc |-> ""]]
    /\ cfg = [p \in Procs |-> CHOOSE c \in RunConfigs : c.variant.dataset_name = "ghost"]
    /\ pc = [p \in Procs |-> "idle"]

CallCompareRuns ==
    /\ fn_in.op = "compare_runs"
    /\ IsNone(fn_out)
    /\ fn_out' = Some(compare_runs(fn_in.baseline_run_id, fn_in.candidate_run_id,
                                   fn_in.gate_config))
    /\ UNCHANGED <<fn_in, runner>>

SpecCompare == InitCompare /\ [][CallCompareRuns]_vars

CompareReturned ==
    ~IsNone(fn_out) /\ fn_in.op = "compare_runs" /\ Val(fn_out).kind = "returned"

\* C29: in every CompareResult of compare_runs, for each metric configured
\* in max_drop_from_baseline and present in deltas, the overlay entry's
\* passed equals the passed of the gate decision's max_drop check of that
\* metric, for every allowed drop (positive, zero or negative) and every
\* pair of baseline and candidate values.
C29_OverlayAgreesWithGate ==
    CompareReturned =>
        LET result == Val(fn_out).value
            drops == Val(fn_in.gate_config).max_drop_from_baseline
        IN IsNone(fn_in.gate_config)
           \/ \A i \in DOMAIN drops :
                 drops[i][1] \in DOMAIN result.threshold_overlay
                    => result.threshold_overlay[drops[i][1]].passed
                         = result.gate_decision.checks[<<"max_drop", drops[i][1]>>].passed


\* C30: for every ItemResult the loop produces, schema_error is absent
\* exactly when scores.schema_valid is 1.0: an item without a schema has
\* schema_valid 1.0 and no schema_error; an item with a schema carries a
\* message exactly when its output does not parse as JSON or violates the
\* schema, an output left empty by a failed generation included.
C30_SchemaErrorIffInvalid ==
    \A r \in ProducedResults :
        LET item == ItemById(r.item_id)
        IN /\ IsNone(r.schema_error) <=> r.scores.schema_valid = Unit
           /\ r.scores.schema_valid \in {0, Unit}
           /\ IsNone(item.output_schema) => IsNone(r.schema_error)
           /\ ~IsNone(item.output_schema)
                => (~IsNone(r.schema_error)
                      <=> \/ IsNone(JsonLoads(r.output_text))
                          \/ Val(JsonLoads(r.output_text)) # Val(item.output_schema).type)

C30_Witness ==
    \E b, d \in ProducedResults :
        /\ ~IsNone(ItemById(b.item_id).output_schema)
        /\ ~IsNone(b.error) /\ b.output_text = <<>>
        /\ ~IsNone(b.schema_error) /\ b.scores.schema_valid = 0
        /\ IsNone(ItemById(d.item_id).output_schema)
        /\ IsNone(d.schema_error) /\ d.scores.schema_valid = Unit


====
